---- MODULE Spec2Model ----
(***************************************************************************)
(* The page-image cache of the PDF editor (src/src/models/document_cache.py)*)
(* and the PDFDocument that owns one (src/src/models/pdf_document.py).      *)
(*                                                                         *)
(* The page viewer of the editor (src/src/views/pdf_viewer.py) is followed  *)
(* in a specification of its own, SpecViewer.                               *)
(*                                                                         *)
(* The main specifications, which share the variables:                      *)
(*   Spec        a stand-alone DocumentCache(max_size) driven directly, as  *)
(*               the tests in src/tests/models/test_document_cache.py do;   *)
(*   SpecDoc     a PDFDocument driven through its page methods; its cache   *)
(*               is only touched by those methods;                          *)
(*   SpecLife    the life cycle of a PDFDocument: load, close, with-block,  *)
(*               save and every guarded method, loaded or not;              *)
(*   SpecThreads two threads rendering and invalidating on one cache, each  *)
(*               cache method taken statement by statement under            *)
(*               "with self._cache_lock".                                   *)
(* In Spec, SpecDoc and SpecLife one call is one step: the calls are made   *)
(* one after the other.  SpecSerial, SpecRender, SpecLeftover and SpecFrame *)
(* restrict these to the calls a property is about; FairThreads adds the    *)
(* fairness of the thread scheduler to a restriction of SpecThreads.        *)
(***************************************************************************)
EXTENDS Integers, Sequences, FiniteSets, TLC

VARIABLES
    max_size,    \* DocumentCache.max_size
    page_cache,  \* DocumentCache._page_cache: entries oldest first (OrderedDict order)
    doc,         \* PDFDocument.doc: the engine handle, or NoDoc for None
    filepath,    \* PDFDocument.filepath ("" for None)
    touched,     \* history: the cached keys, ordered by their last successful
                 \* lookup or insertion, oldest first
    last,        \* history: the call that completed last, its arguments, outcome
                 \* and pre-state
    calls,       \* history: the number of calls made on the PDFDocument
    handles,     \* the number of engine handles the PDFDocument has opened that
                 \* are still open
    lock,        \* DocumentCache._cache_lock: the thread holding it, or Free
    thr,         \* per thread: the call it is in and that call's local variables
    log,         \* history: the cache operation of a thread that released the
                 \* lock last (empty before the first)
    viewer       \* PDFViewerWidget: current_page, total_pages, the number of
                 \* page_labels, zoom_level; history: the call that completed
                 \* last, what it returned and the signals it emitted

vars == <<max_size, page_cache, doc, filepath, touched, last, calls, handles,
          lock, thr, log, viewer>>

---------------------------------------------------------------------------
(* Bounds of the exploration *)

\* largest capacity given to the constructor
MaxCap == 2
\* page numbers handed to the stand-alone cache are 0..MaxPageNo
MaxPageNo == 1
\* a document never grows beyond this many pages
MaxPages == 3
\* the number of calls the threads of SpecThreads make in all
MaxThreadCalls == 3

\* a PDFDocument is followed for this many method calls after its construction
MaxCalls == 3
\* and for this many in SpecLeftover
MaxLeftoverCalls == 4
\* max_size of the cache of SpecFrame
MaxFrameCap == 3
\* the largest number of pages handed to PDFViewerWidget.set_document
MaxLabels == 3

\* zoom arguments in units of 1/10000: 1.001, 1.0049 and 1.006
Zooms == {10010, 10049, 10060}

PageNumbers == 0..MaxPageNo

---------------------------------------------------------------------------
(* Values *)

\* a rendered image: what it shows and the zoom it was rasterized at
Pixmap(content, zoom) == [content |-> content, zoom |-> zoom]

\* Python's None where an image is expected
None == [content |-> -1, zoom |-> -1]

\* the images the cache tests insert (MockPixmap objects)
MockPixmaps == {Pixmap(1, 10000), Pixmap(2, 10000)}

\* self.doc = None
NoDoc == [loaded |-> FALSE, pages |-> <<>>]

\* a key built from the zoom cut to 2 decimals instead of rounded
Mutant_round_truncates(zoom) == zoom \div 100

\* round(zoom, 2), as hundredths. No zoom in Zooms is a decimal tie, where the
\* binary value of the float decides.
Round2(zoom) ==
    LET q == zoom \div 100
        r == zoom % 100
    IN  IF r > 50 THEN q + 1 ELSE q

\* cache_key = (page.number, zoom) after rounding
CacheKey(number, zoom) == <<number, Round2(zoom)>>

---------------------------------------------------------------------------
(* OrderedDict primitives on a sequence of [key, image] entries *)

Keys(c) == {c[i].key : i \in 1..Len(c)}

IndexOf(c, k) == CHOOSE i \in 1..Len(c) : c[i].key = k

\* self._page_cache[cache_key]
Item(c, k) == c[IndexOf(c, k)].image

\* the entries of c whose key is in keep, in order
RECURSIVE Filter(_, _)
Filter(c, keep) ==
    IF c = <<>> THEN <<>>
    ELSE IF Head(c).key \in keep THEN <<Head(c)>> \o Filter(Tail(c), keep)
         ELSE Filter(Tail(c), keep)

\* the keys of the cache c, oldest first
KeyOrder(c) == [i \in 1..Len(c) |-> c[i].key]

\* the cached keys of page p
KeysOfPage(c, p) == {k \in Keys(c) : k[1] = p}

\* del self._page_cache[key]
DelKey(c, k) == Filter(c, Keys(c) \ {k})

\* OrderedDict.move_to_end(key)
MoveToEnd(c, k) == Append(DelKey(c, k), c[IndexOf(c, k)])

---------------------------------------------------------------------------
(* DocumentCache *)

\* get_page_image without the move_to_end
Mutant_get_no_promote(c, number, zoom) ==
    LET k == CacheKey(number, zoom)
    IN  IF k \in Keys(c)
        THEN [cache |-> c, ret |-> Item(c, k)]
        ELSE [cache |-> c, ret |-> None]

\* get_page_image whose miss makes the oldest entry the newest
Mutant_get_miss_rotates(c, number, zoom) ==
    LET k == CacheKey(number, zoom)
    IN  IF k \in Keys(c)
        THEN [cache |-> MoveToEnd(c, k), ret |-> Item(c, k)]
        ELSE [cache |-> IF c = <<>> THEN c ELSE Append(Tail(c), Head(c)),
              ret |-> None]

\* DocumentCache.get_page_image: the cache afterwards and the value returned
DocumentCache_get_page_image(c, number, zoom) ==
    LET k == CacheKey(number, zoom)
    IN  IF k \in Keys(c)
        THEN [cache |-> MoveToEnd(c, k), ret |-> Item(c, k)]
        ELSE [cache |-> c, ret |-> None]

\* add_page_image evicting only when len > max_size
Mutant_add_late_evict(c, m, number, image, zoom) ==
    LET k == CacheKey(number, zoom)
        e == [key |-> k, image |-> image]
    IN  IF k \in Keys(c) THEN [cache |-> c, exc |-> "none"]
        ELSE IF Len(c) > m
             THEN [cache |-> Append(Tail(c), e), exc |-> "none"]
             ELSE [cache |-> Append(c, e), exc |-> "none"]

\* add_page_image evicting with popitem() (last=True): the newest entry goes
Mutant_add_evict_newest(c, m, number, image, zoom) ==
    LET k == CacheKey(number, zoom)
        e == [key |-> k, image |-> image]
    IN  IF k \in Keys(c) THEN [cache |-> c, exc |-> "none"]
        ELSE IF Len(c) >= m
             THEN IF c = <<>>
                  THEN [cache |-> c, exc |-> "KeyError"]
                  ELSE [cache |-> Append(SubSeq(c, 1, Len(c) - 1), e), exc |-> "none"]
             ELSE [cache |-> Append(c, e), exc |-> "none"]

\* add_page_image without the "already in cache" return: the image is replaced
Mutant_add_overwrite(c, m, number, image, zoom) ==
    LET k == CacheKey(number, zoom)
        e == [key |-> k, image |-> image]
    IN  IF k \in Keys(c)
        THEN [cache |-> [c EXCEPT ![IndexOf(c, k)] = e], exc |-> "none"]
        ELSE IF Len(c) >= m
             THEN IF c = <<>>
                  THEN [cache |-> c, exc |-> "KeyError"]
                  ELSE [cache |-> Append(Tail(c), e), exc |-> "none"]
             ELSE [cache |-> Append(c, e), exc |-> "none"]

\* add_page_image that marks an already cached key as recently used
Mutant_add_refresh(c, m, number, image, zoom) ==
    LET k == CacheKey(number, zoom)
        e == [key |-> k, image |-> image]
    IN  IF k \in Keys(c) THEN [cache |-> MoveToEnd(c, k), exc |-> "none"]
        ELSE IF Len(c) >= m
             THEN IF c = <<>>
                  THEN [cache |-> c, exc |-> "KeyError"]
                  ELSE [cache |-> Append(Tail(c), e), exc |-> "none"]
             ELSE [cache |-> Append(c, e), exc |-> "none"]

\* DocumentCache.add_page_image: the cache afterwards and the exception raised.
\* popitem(last=False) on an empty OrderedDict raises KeyError.
DocumentCache_add_page_image(c, m, number, image, zoom) ==
    LET k == CacheKey(number, zoom)
        e == [key |-> k, image |-> image]
    IN  IF k \in Keys(c) THEN [cache |-> c, exc |-> "none"]
        ELSE IF Len(c) >= m
             THEN IF c = <<>>
                  THEN [cache |-> c, exc |-> "KeyError"]
                  ELSE [cache |-> Append(Tail(c), e), exc |-> "none"]
             ELSE [cache |-> Append(c, e), exc |-> "none"]

\* clear that spares the newest entry
Mutant_clear_keeps_newest(c) == IF c = <<>> THEN c ELSE <<c[Len(c)]>>

\* DocumentCache.clear
DocumentCache_clear(c) == <<>>

\* remove_page rebuilding the dictionary from the entries it keeps, newest first
Mutant_remove_page_reversed(c, page_number) ==
    LET f == Filter(c, {k \in Keys(c) : k[1] # page_number})
    IN  IF Len(f) = Len(c) THEN c ELSE [i \in 1..Len(f) |-> f[Len(f) + 1 - i]]

\* remove_page deleting only the oldest entry of the page
Mutant_remove_page_one_zoom(c, page_number) ==
    LET ks == {k \in Keys(c) : k[1] = page_number}
    IN  IF ks = {} THEN c
        ELSE DelKey(c, c[CHOOSE i \in 1..Len(c) :
                            /\ c[i].key \in ks
                            /\ \A j \in 1..(i - 1) : c[j].key \notin ks].key)

\* DocumentCache.remove_page
DocumentCache_remove_page(c, page_number) ==
    Filter(c, {k \in Keys(c) : k[1] # page_number})

\* sorted(list(S)) of a set of integers: its elements in ascending order
RECURSIVE Sorted(_)
Sorted(S) ==
    IF S = {} THEN <<>>
    ELSE LET m == CHOOSE x \in S : \A y \in S : x <= y
         IN  <<m>> \o Sorted(S \ {m})

\* cache_info listing k[0] of every key as it comes, without set() and sorted()
Mutant_cache_info_raw_pages(c, m) ==
    [size |-> Len(c), max_size |-> m, pages |-> [i \in 1..Len(c) |-> c[i].key[1]]]

\* DocumentCache.cache_info: size, max_size and
\* sorted(list(set(k[0] for k in self._page_cache.keys())))
DocumentCache_cache_info(c, m) ==
    [size |-> Len(c), max_size |-> m, pages |-> Sorted({k[1] : k \in Keys(c)})]

---------------------------------------------------------------------------
(* History of the calls: what an observer of the cache's interface records *)

\* what a call remembers of a lookup made directly before it
NoPrev == [op |-> "other", args |-> <<>>, ret |-> None, missed |-> FALSE]

\* the lookup a call made, if it was one and returned an image; NoPrev otherwise
AsPrev(call) ==
    IF call.op \in {"get", "get_page_image"} /\ call.ret # None
    THEN [op |-> call.op, args |-> call.args, ret |-> call.ret, missed |-> call.missed]
    ELSE NoPrev

\* op(args) returned ret or raised exc; image is the image argument, rast the
\* number of rasterizations and eng the number of engine mutation calls it made,
\* missed whether its cache lookup missed; cache0, doc0 and touched0 are the
\* state it started from and prev the lookup made by the call before it.
\* msg is the text of the exception, closed the number of engine handles the
\* call closed, val the value returned when it is not an image and mode the
\* mode of the engine's save: they are filled in by the methods of PDFDocument.
Call(op, args, image, ret, exc, rast, eng, missed) ==
    [op |-> op, args |-> args, image |-> image, ret |-> ret, exc |-> exc,
     rast |-> rast, eng |-> eng, missed |-> missed,
     cache0 |-> page_cache, doc0 |-> doc, touched0 |-> touched,
     prev |-> AsPrev(last), msg |-> "", closed |-> 0, val |-> "", mode |-> "",
     filepath0 |-> filepath, handles0 |-> handles]

NoCall ==
    [op |-> "init", args |-> <<>>, image |-> None, ret |-> None, exc |-> "none",
     rast |-> 0, eng |-> 0, missed |-> FALSE,
     cache0 |-> <<>>, doc0 |-> NoDoc, touched0 |-> <<>>, prev |-> NoPrev,
     msg |-> "", closed |-> 0, val |-> "", mode |-> "", filepath0 |-> "",
     handles0 |-> 0]

\* the threads that use one PDFDocument, and the value of a lock nobody holds
Threads == {"t1", "t2"}

Free == "free"

\* a thread that is in no call
Idle ==
    [pc |-> "idle", op |-> "none", number |-> 0, zoom |-> 0, image |-> None,
     todo |-> <<>>, cache0 |-> <<>>, invalidated |-> FALSE]

\* nothing is running on another thread: the lock is free, no thread is in a
\* call and no cache operation has completed
NoThreads ==
    /\ lock = Free
    /\ thr = [t \in Threads |-> Idle]
    /\ log = <<>>

\* no PDFViewerWidget has been constructed
NoViewer ==
    [current_page |-> 0, total_pages |-> 0, page_labels |-> 0, zoom_level |-> 0,
     op |-> "none", arg |-> 0, ret |-> "None", emitted |-> <<>>,
     current_page0 |-> 0, zoom_level0 |-> 0]

\* the keys of the sequence t that are in keep, in order
RECURSIVE Restrict(_, _)
Restrict(t, keep) ==
    IF t = <<>> THEN <<>>
    ELSE IF Head(t) \in keep THEN <<Head(t)>> \o Restrict(Tail(t), keep)
         ELSE Restrict(Tail(t), keep)

\* touched after a call on key k that left the cache c1: keys no longer
\* cached are forgotten; k becomes the newest when the call looked it up
\* successfully (hit) or inserted it (k is cached now and was not before).
Touch(c1, k, hit) ==
    IF k \in Keys(c1) /\ (hit \/ k \notin Keys(page_cache))
    THEN Append(Restrict(touched, Keys(c1) \ {k}), k)
    ELSE Restrict(touched, Keys(c1))

\* touched after a call that looks up and inserts nothing
Forget(c1) == Restrict(touched, Keys(c1))

---------------------------------------------------------------------------
(* Spec: a stand-alone DocumentCache *)

\* DocumentCache(max_size): the constructor validates nothing
Init ==
    /\ max_size \in 0..MaxCap
    /\ page_cache = <<>>
    /\ doc = NoDoc
    /\ filepath = ""
    /\ touched = <<>>
    /\ last = NoCall
    /\ calls = 0
    /\ handles = 0
    /\ NoThreads
    /\ viewer = NoViewer

CacheGet(number, zoom) ==
    LET r == DocumentCache_get_page_image(page_cache, number, zoom)
    IN  /\ page_cache' = r.cache
        /\ touched' = Touch(r.cache, CacheKey(number, zoom), r.ret # None)
        /\ last' = Call("get", <<number, zoom>>, None, r.ret, "none", 0, 0, r.ret = None)
        /\ UNCHANGED <<viewer, max_size, doc, filepath, calls, handles, lock, thr, log>>

CacheAdd(number, image, zoom) ==
    LET r == DocumentCache_add_page_image(page_cache, max_size, number, image, zoom)
    IN  /\ page_cache' = r.cache
        /\ touched' = Touch(r.cache, CacheKey(number, zoom), FALSE)
        /\ last' = Call("add", <<number, zoom>>, image, None, r.exc, 0, 0, FALSE)
        /\ UNCHANGED <<viewer, max_size, doc, filepath, calls, handles, lock, thr, log>>

CacheClear ==
    /\ page_cache' = DocumentCache_clear(page_cache)
    /\ touched' = Forget(page_cache')
    /\ last' = Call("clear", <<>>, None, None, "none", 0, 0, FALSE)
    /\ UNCHANGED <<viewer, max_size, doc, filepath, calls, handles, lock, thr, log>>

CacheRemovePage(number) ==
    /\ page_cache' = DocumentCache_remove_page(page_cache, number)
    /\ touched' = Forget(page_cache')
    /\ last' = Call("remove_page", <<number>>, None, None, "none", 0, 0, FALSE)
    /\ UNCHANGED <<viewer, max_size, doc, filepath, calls, handles, lock, thr, log>>

CacheInfo ==
    /\ last' = LET info == DocumentCache_cache_info(page_cache, max_size)
               IN  Call("cache_info", <<info.size, info.max_size, info.pages>>,
                        None, None, "none", 0, 0, FALSE)
    /\ UNCHANGED <<viewer, max_size, page_cache, doc, filepath, touched, calls, handles,
                 lock, thr, log>>

Next ==
    \/ \E n \in PageNumbers, z \in Zooms : CacheGet(n, z)
    \/ \E n \in PageNumbers, z \in Zooms, i \in MockPixmaps : CacheAdd(n, i, z)
    \/ CacheClear
    \/ \E n \in PageNumbers : CacheRemovePage(n)
    \/ CacheInfo

Spec == Init /\ [][Next]_vars

\* SpecFrame: the stand-alone cache with room for MaxFrameCap entries, so that
\* entries of two pages lie between and around each other
InitFrame ==
    /\ max_size = MaxFrameCap
    /\ page_cache = <<>>
    /\ doc = NoDoc
    /\ filepath = ""
    /\ touched = <<>>
    /\ last = NoCall
    /\ calls = 0
    /\ handles = 0
    /\ NoThreads
    /\ viewer = NoViewer

\* the pages of SpecFrame
FramePages == {0, 1}

\* the zoom arguments of SpecFrame: 1.001 and 1.006
FrameZooms == {10010, 10060}

\* the calls of Spec, on two pages at two zoom levels that round differently
NextFrame ==
    \/ \E n \in FramePages, z \in FrameZooms : CacheGet(n, z)
    \/ \E n \in FramePages, z \in FrameZooms, i \in MockPixmaps : CacheAdd(n, i, z)
    \/ CacheClear
    \/ \E n \in FramePages : CacheRemovePage(n)
    \/ CacheInfo

SpecFrame == InitFrame /\ [][NextFrame]_vars

---------------------------------------------------------------------------
(* The PDF engine (fitz.Document), as PDFDocument uses it. A document is the *)
(* sequence of its pages' contents; page index i is pages[i + 1].            *)

\* the paths load is called with, and what the engine finds there
Files == {"a.pdf", "bad.pdf"}

\* fitz.open(filepath): the pages of the file; "bad.pdf" cannot be opened
FilePages(f) == <<1, 2, 3>>

CanOpen(f) == f = "a.pdf"

\* str(e) of the exception fitz.open raises for a path it cannot open
Diagnostic(f) == "no such file: '" \o f \o "'"

\* the content of a page made by new_page
Blank == 0

\* truth value of a fitz.Document: it defines __len__ as its page count and no
\* __bool__, so a handle with zero pages is falsy, like None
Truthy(d) == d.loaded /\ Len(d.pages) > 0

\* pages with the page at index n removed
RemoveAt(pages, n) == SubSeq(pages, 1, n) \o SubSeq(pages, n + 2, Len(pages))

\* pages with content x inserted in front of index n
InsertAt(pages, n, x) == SubSeq(pages, 1, n) \o <<x>> \o SubSeq(pages, n + 1, Len(pages))

\* fitz.Document.delete_page(pno)
Engine_delete_page(pages, pno) == RemoveAt(pages, pno)

\* fitz.Document.delete_pages(from_page, to_page)
Engine_delete_pages(pages, from_page, to_page) ==
    SubSeq(pages, 1, from_page) \o SubSeq(pages, to_page + 2, Len(pages))

\* fitz.Document.move_page(pno, to): the page is put in front of the page that
\* has index to before the call (test_move_page: "to *before* index 2")
Engine_move_page(pages, pno, to) ==
    LET x == pages[pno + 1]
        ins == InsertAt(pages, to, x)
    IN  IF pno < to THEN RemoveAt(ins, pno) ELSE RemoveAt(ins, pno + 1)

\* fitz.Document.copy_page(pno, to): a copy is put in front of index to, or at
\* the end for to = -1; any other target is refused by the engine
Engine_copy_page(pages, pno, to) ==
    IF to = -1 THEN [pages |-> Append(pages, pages[pno + 1]), exc |-> "none"]
    ELSE IF 0 <= to /\ to < Len(pages)
         THEN [pages |-> InsertAt(pages, to, pages[pno + 1]), exc |-> "none"]
         ELSE [pages |-> pages, exc |-> "ValueError"]

\* fitz.Document.select(page_list): the listed pages in the listed order; an
\* empty list is refused by the engine
Engine_select(pages, page_list) ==
    IF page_list = <<>> THEN [pages |-> pages, exc |-> "ValueError"]
    ELSE [pages |-> [i \in 1..Len(page_list) |-> pages[page_list[i] + 1]],
          exc |-> "none"]

\* fitz.Document.new_page(pno): a blank page in front of index pno, or at the
\* end for pno = -1 or pno = page count; any other position is refused
Engine_new_page(pages, pno) ==
    IF pno = -1 \/ pno = Len(pages)
    THEN [pages |-> Append(pages, Blank), exc |-> "none"]
    ELSE IF 0 <= pno /\ pno < Len(pages)
         THEN [pages |-> InsertAt(pages, pno, Blank), exc |-> "none"]
         ELSE [pages |-> pages, exc |-> "ValueError"]

\* page.get_pixmap(matrix=fitz.Matrix(zoom, zoom)) of the page at page_number
Engine_get_pixmap(pages, page_number, zoom) == Pixmap(pages[page_number + 1], zoom)

\* page.get_text(text_type): the fixture writes "Page N" on page N
Engine_get_text(pages, page_number) == "Page " \o ToString(pages[page_number + 1])

\* page.search_for(text, quads=quads): the occurrences found on the page
Engine_search_for(pages, page_number) == "rects on " \o ToString(pages[page_number + 1])

\* page.get_images(): the images of the page
Engine_get_images(pages, page_number) == "images on " \o ToString(pages[page_number + 1])

\* the xref arguments of extract_image: 0 is never a valid xref, ImageXref is
\* the xref of an image object
ImageXref == 7

Xrefs == {0, ImageXref}

\* fitz.Document.extract_image(xref): a bad xref is refused
Engine_extract_image(xref) ==
    IF xref = ImageXref THEN [val |-> "image dict", exc |-> "none"]
    ELSE [val |-> "", exc |-> "ValueError"]

\* the paths save is called with: the file that was loaded, a new file, and a
\* file that cannot be written
SavePaths == {"a.pdf", "out.pdf", "readonly.pdf"}

\* fitz.Document.save(filepath, ...): raises when the file cannot be written
Engine_save(f) == IF f = "readonly.pdf" THEN "RuntimeError" ELSE "none"

---------------------------------------------------------------------------
(* PDFDocument: each method maps the handle d and the cache c (capacity m) *)
(* to its outcome                                                          *)

\* the handle and cache afterwards, the value returned (an image or None),
\* the exception raised, the number of rasterizations and of engine mutation
\* calls made, and whether the cache lookup hit; then the text of the
\* exception and the numbers of engine handles the call opened, closed with
\* close(), and dropped (unbound from self.doc without close()), the value
\* returned when it is not an image, and the mode of the engine's save
Outcome(d, c, ret, exc, rast, eng, hit) ==
    [doc |-> d, cache |-> c, ret |-> ret, exc |-> exc, rast |-> rast,
     eng |-> eng, hit |-> hit, msg |-> "", opened |-> 0, closed |-> 0,
     dropped |-> 0, val |-> "", mode |-> ""]

\* 0 <= n < self.doc.page_count
InRange(d, n) == 0 <= n /\ n < Len(d.pages)

\* require_document: raise PDFDocumentError if not self.doc
NoDocument(d, c) ==
    [Outcome(d, c, None, "PDFDocumentError", 0, 0, FALSE)
        EXCEPT !.msg = "No document loaded"]

\* raise PDFPageError(...): nothing was changed
PageError(d, c) == Outcome(d, c, None, "PDFPageError", 0, 0, FALSE)

\* load that unbinds the old handle and clears the cache before fitz.open
Mutant_load_resets_first(d, c, f) ==
    IF CanOpen(f)
    THEN [Outcome([loaded |-> TRUE, pages |-> FilePages(f)], DocumentCache_clear(c),
                  None, "none", 0, 0, FALSE)
             EXCEPT !.opened = 1, !.dropped = IF d.loaded THEN 1 ELSE 0]
    ELSE [Outcome(NoDoc, DocumentCache_clear(c), None, "PDFDocumentError", 0, 0, FALSE)
             EXCEPT !.msg = "Failed to open PDF document: " \o Diagnostic(f),
                    !.dropped = IF d.loaded THEN 1 ELSE 0]

\* PDFDocument.load: self.doc is bound to the new handle as soon as fitz.open
\* returns; the handle held before is not closed, only unbound. When fitz.open
\* raises, nothing has been assigned.
PDFDocument_load(d, c, f) ==
    IF CanOpen(f)
    THEN [Outcome([loaded |-> TRUE, pages |-> FilePages(f)], DocumentCache_clear(c),
                  None, "none", 0, 0, FALSE)
             EXCEPT !.opened = 1, !.dropped = IF d.loaded THEN 1 ELSE 0]
    ELSE [Outcome(d, c, None, "PDFDocumentError", 0, 0, FALSE)
             EXCEPT !.msg = "Failed to open PDF document: " \o Diagnostic(f)]

\* close without self._cache.clear()
Mutant_close_keeps_cache(d, c) ==
    IF Truthy(d)
    THEN [Outcome(NoDoc, c, None, "none", 0, 0, FALSE) EXCEPT !.closed = 1]
    ELSE Outcome(d, c, None, "none", 0, 0, FALSE)

\* PDFDocument.close
PDFDocument_close(d, c) ==
    IF Truthy(d)
    THEN [Outcome(NoDoc, DocumentCache_clear(c), None, "none", 0, 0, FALSE)
             EXCEPT !.closed = 1]
    ELSE Outcome(d, c, None, "none", 0, 0, FALSE)

\* PDFDocument.delete_page
PDFDocument_delete_page(d, c, page_number) ==
    IF ~Truthy(d) THEN NoDocument(d, c)
    ELSE IF InRange(d, page_number)
         THEN Outcome([d EXCEPT !.pages = Engine_delete_page(@, page_number)],
                      DocumentCache_remove_page(c, page_number),
                      None, "none", 0, 1, FALSE)
         ELSE PageError(d, c)

\* for page_num in range(from_page, to_page + 1): self._cache.remove_page(page_num)
RECURSIVE RemovePages(_, _, _)
RemovePages(c, from_page, to_page) ==
    IF from_page > to_page THEN c
    ELSE RemovePages(DocumentCache_remove_page(c, from_page), from_page + 1, to_page)

\* delete_pages invalidating only from_page
Mutant_delete_pages_first_only(d, c, from_page, to_page) ==
    IF ~Truthy(d) THEN NoDocument(d, c)
    ELSE IF 0 <= from_page /\ from_page <= to_page /\ to_page < Len(d.pages)
         THEN Outcome([d EXCEPT !.pages = Engine_delete_pages(@, from_page, to_page)],
                      DocumentCache_remove_page(c, from_page),
                      None, "none", 0, 1, FALSE)
         ELSE PageError(d, c)

\* delete_pages giving up the handle when no page is left
Mutant_delete_pages_unloads(d, c, from_page, to_page) ==
    IF ~Truthy(d) THEN NoDocument(d, c)
    ELSE IF 0 <= from_page /\ from_page <= to_page /\ to_page < Len(d.pages)
         THEN Outcome(IF to_page - from_page + 1 = Len(d.pages) THEN NoDoc
                      ELSE [d EXCEPT !.pages = Engine_delete_pages(@, from_page, to_page)],
                      RemovePages(c, from_page, to_page),
                      None, "none", 0, 1, FALSE)
         ELSE PageError(d, c)

\* PDFDocument.delete_pages
PDFDocument_delete_pages(d, c, from_page, to_page) ==
    IF ~Truthy(d) THEN NoDocument(d, c)
    ELSE IF 0 <= from_page /\ from_page <= to_page /\ to_page < Len(d.pages)
         THEN Outcome([d EXCEPT !.pages = Engine_delete_pages(@, from_page, to_page)],
                      RemovePages(c, from_page, to_page),
                      None, "none", 0, 1, FALSE)
         ELSE PageError(d, c)

\* PDFDocument.move_page
PDFDocument_move_page(d, c, from_page, to_page) ==
    IF ~Truthy(d) THEN NoDocument(d, c)
    ELSE IF InRange(d, from_page) /\ InRange(d, to_page)
         THEN Outcome([d EXCEPT !.pages = Engine_move_page(@, from_page, to_page)],
                      DocumentCache_remove_page(
                          DocumentCache_remove_page(c, from_page), to_page),
                      None, "none", 0, 1, FALSE)
         ELSE PageError(d, c)

\* copy_page invalidating only the copied index
Mutant_copy_page_remove_one(d, c, page_number, to_page) ==
    IF ~Truthy(d) THEN NoDocument(d, c)
    ELSE IF InRange(d, page_number)
         THEN LET e == Engine_copy_page(d.pages, page_number, to_page)
              IN  IF e.exc = "none"
                  THEN Outcome([d EXCEPT !.pages = e.pages],
                               DocumentCache_remove_page(c, to_page),
                               None, "none", 0, 1, FALSE)
                  ELSE Outcome(d, c, None, e.exc, 0, 1, FALSE)
         ELSE PageError(d, c)

\* PDFDocument.copy_page: an exception of the engine propagates as it is
PDFDocument_copy_page(d, c, page_number, to_page) ==
    IF ~Truthy(d) THEN NoDocument(d, c)
    ELSE IF InRange(d, page_number)
         THEN LET e == Engine_copy_page(d.pages, page_number, to_page)
              IN  IF e.exc = "none"
                  THEN Outcome([d EXCEPT !.pages = e.pages], DocumentCache_clear(c),
                               None, "none", 0, 1, FALSE)
                  ELSE Outcome(d, c, None, e.exc, 0, 1, FALSE)
         ELSE PageError(d, c)

\* PDFDocument.select: an exception of the engine propagates as it is
PDFDocument_select(d, c, page_list) ==
    IF ~Truthy(d) THEN NoDocument(d, c)
    ELSE IF \A i \in 1..Len(page_list) : InRange(d, page_list[i])
         THEN LET e == Engine_select(d.pages, page_list)
              IN  IF e.exc = "none"
                  THEN Outcome([d EXCEPT !.pages = e.pages], DocumentCache_clear(c),
                               None, "none", 0, 1, FALSE)
                  ELSE Outcome(d, c, None, e.exc, 0, 1, FALSE)
         ELSE PageError(d, c)

\* new_page invalidating pno and every index behind it
Mutant_new_page_remove_shifted(d, c, pno) ==
    IF ~Truthy(d) THEN NoDocument(d, c)
    ELSE LET e == Engine_new_page(d.pages, pno)
         IN  IF e.exc = "none"
             THEN Outcome([d EXCEPT !.pages = e.pages],
                          IF pno >= 0 THEN RemovePages(c, pno, Len(d.pages)) ELSE c,
                          None, "none", 0, 1, FALSE)
             ELSE Outcome(d, c, None, e.exc, 0, 1, FALSE)

\* PDFDocument.new_page: no range check; an exception of the engine propagates
\* as it is. The page object returned is not recorded (it is always truthy).
PDFDocument_new_page(d, c, pno) ==
    IF ~Truthy(d) THEN NoDocument(d, c)
    ELSE LET e == Engine_new_page(d.pages, pno)
         IN  IF e.exc = "none"
             THEN Outcome([d EXCEPT !.pages = e.pages],
                          IF pno >= 0 THEN DocumentCache_remove_page(c, pno) ELSE c,
                          None, "none", 0, 1, FALSE)
             ELSE Outcome(d, c, None, e.exc, 0, 1, FALSE)

\* get_page_image without the add_page_image after rendering
Mutant_get_page_image_no_store(d, c, m, page_number, zoom) ==
    IF ~Truthy(d) THEN NoDocument(d, c)
    ELSE IF InRange(d, page_number)
         THEN LET g == DocumentCache_get_page_image(c, page_number, zoom)
              IN  IF g.ret # None
                  THEN Outcome(d, g.cache, g.ret, "none", 0, 0, TRUE)
                  ELSE Outcome(d, g.cache, Engine_get_pixmap(d.pages, page_number, zoom),
                               "none", 1, 0, FALSE)
         ELSE Outcome(d, c, None, "none", 0, 0, FALSE)

\* get_page_image calling add_page_image(page, pixmap) without the zoom, which
\* then takes its default 1.0
Mutant_get_page_image_default_zoom(d, c, m, page_number, zoom) ==
    IF ~Truthy(d) THEN NoDocument(d, c)
    ELSE IF InRange(d, page_number)
         THEN LET g == DocumentCache_get_page_image(c, page_number, zoom)
              IN  IF g.ret # None
                  THEN Outcome(d, g.cache, g.ret, "none", 0, 0, TRUE)
                  ELSE LET pixmap == Engine_get_pixmap(d.pages, page_number, zoom)
                           a == DocumentCache_add_page_image(
                                    g.cache, m, page_number, pixmap, 10000)
                       IN  IF a.exc = "none"
                           THEN Outcome(d, a.cache, pixmap, "none", 1, 0, FALSE)
                           ELSE Outcome(d, a.cache, None, a.exc, 1, 0, FALSE)
         ELSE Outcome(d, c, None, "none", 0, 0, FALSE)

\* PDFDocument.get_page_image. A Pixmap is truthy (its __len__ is its size in
\* bytes), so "if cached_image" is the hit test.
PDFDocument_get_page_image(d, c, m, page_number, zoom) ==
    IF ~Truthy(d) THEN NoDocument(d, c)
    ELSE IF InRange(d, page_number)
         THEN LET g == DocumentCache_get_page_image(c, page_number, zoom)
              IN  IF g.ret # None
                  THEN Outcome(d, g.cache, g.ret, "none", 0, 0, TRUE)
                  ELSE LET pixmap == Engine_get_pixmap(d.pages, page_number, zoom)
                           a == DocumentCache_add_page_image(
                                    g.cache, m, page_number, pixmap, zoom)
                       IN  IF a.exc = "none"
                           THEN Outcome(d, a.cache, pixmap, "none", 1, 0, FALSE)
                           ELSE Outcome(d, a.cache, None, a.exc, 1, 0, FALSE)
         ELSE Outcome(d, c, None, "none", 0, 0, FALSE)

\* PDFDocument.__exit__: leaving a with-block calls close()
PDFDocument_exit(d, c) == PDFDocument_close(d, c)

\* save with the no-document test of require_document left out
Mutant_save_unguarded(d, c, fp, f) ==
    LET e == Engine_save(f)
        r == Outcome(d, c, None, IF e = "none" THEN "none" ELSE "PDFError", 0, 0, FALSE)
    IN  [r EXCEPT !.mode = IF f = fp THEN "incremental" ELSE "full",
                  !.msg = IF e = "none" THEN "" ELSE "Failed to save PDF: " \o e]

\* PDFDocument.save, called on a document whose filepath is fp: the load test
\* is outside the try block, so its PDFDocumentError is not rewrapped
PDFDocument_save(d, c, fp, f) ==
    IF ~Truthy(d)
    THEN [Outcome(d, c, None, "PDFDocumentError", 0, 0, FALSE)
             EXCEPT !.msg = "Cannot save: No document loaded."]
    ELSE LET e == Engine_save(f)
             r == Outcome(d, c, None, IF e = "none" THEN "none" ELSE "PDFError",
                          0, 0, FALSE)
         IN  [r EXCEPT !.mode = IF f = fp THEN "incremental" ELSE "full",
                       !.msg = IF e = "none" THEN "" ELSE "Failed to save PDF: " \o e]

\* PDFDocument.get_page_text
PDFDocument_get_page_text(d, c, page_number) ==
    IF ~Truthy(d) THEN NoDocument(d, c)
    ELSE [Outcome(d, c, None, "none", 0, 0, FALSE)
             EXCEPT !.val = IF InRange(d, page_number)
                            THEN Engine_get_text(d.pages, page_number) ELSE "None"]

\* PDFDocument.search_page_for
PDFDocument_search_page_for(d, c, page_number) ==
    IF ~Truthy(d) THEN NoDocument(d, c)
    ELSE [Outcome(d, c, None, "none", 0, 0, FALSE)
             EXCEPT !.val = IF InRange(d, page_number)
                            THEN Engine_search_for(d.pages, page_number) ELSE "[]"]

\* PDFDocument.get_page_images
PDFDocument_get_page_images(d, c, page_number) ==
    IF ~Truthy(d) THEN NoDocument(d, c)
    ELSE [Outcome(d, c, None, "none", 0, 0, FALSE)
             EXCEPT !.val = IF InRange(d, page_number)
                            THEN Engine_get_images(d.pages, page_number) ELSE "[]"]

\* PDFDocument.extract_image: an exception of the engine propagates as it is
PDFDocument_extract_image(d, c, xref) ==
    IF ~Truthy(d) THEN NoDocument(d, c)
    ELSE LET e == Engine_extract_image(xref)
         IN  [Outcome(d, c, None, e.exc, 0, 0, FALSE) EXCEPT !.val = e.val]

\* PDFDocument.page_count: self.doc.page_count if self.doc else 0
PDFDocument_page_count(d, c) ==
    [Outcome(d, c, None, "none", 0, 0, FALSE)
        EXCEPT !.val = IF Truthy(d) THEN ToString(Len(d.pages)) ELSE "0"]

\* metadata wrapped by require_document like the page operations
Mutant_metadata_guarded(d, c) ==
    IF ~Truthy(d) THEN NoDocument(d, c)
    ELSE [Outcome(d, c, None, "none", 0, 0, FALSE) EXCEPT !.val = "metadata dict"]

\* PDFDocument.metadata: self.doc.metadata if self.doc else {}
PDFDocument_metadata(d, c) ==
    [Outcome(d, c, None, "none", 0, 0, FALSE)
        EXCEPT !.val = IF Truthy(d) THEN "metadata dict" ELSE "{}"]

\* PDFDocument.toc: self.doc.get_toc() if self.doc else []
PDFDocument_toc(d, c) ==
    [Outcome(d, c, None, "none", 0, 0, FALSE)
        EXCEPT !.val = IF Truthy(d) THEN "toc list" ELSE "[]"]

---------------------------------------------------------------------------
(* SpecDoc: a PDFDocument driven through its methods *)

\* PDFDocument(filepath): an empty DocumentCache and, when a path is given,
\* the document loaded from it (a path that cannot be opened makes the
\* constructor raise: no object). The cache is DocumentCache(), max_size = 100;
\* the capacity is scaled down to MaxCap so that the bounded key space can
\* fill the cache.
InitDoc ==
    /\ max_size = MaxCap
    /\ page_cache = <<>>
    /\ \E f \in {""} \cup {g \in Files : CanOpen(g)} :
          /\ filepath = f
          /\ doc = IF f = "" THEN NoDoc ELSE [loaded |-> TRUE, pages |-> FilePages(f)]
    /\ handles = (IF doc.loaded THEN 1 ELSE 0)
    /\ touched = <<>>
    /\ last = NoCall
    /\ calls = 0
    /\ NoThreads
    /\ viewer = NoViewer

\* page-index arguments: -1 (below the range, or "at the end"), every index of
\* the current document and its page count (the first index above the range)
Indices == -1..Len(doc.pages)

\* the page lists handed to select: no page, one page, two pages
PageLists ==
    {<<>>} \cup {<<a>> : a \in 0..Len(doc.pages)}
           \cup {<<a, b>> : a \in 0..Len(doc.pages), b \in 0..Len(doc.pages)}

\* the zoom arguments of get_page_image
DocZooms == {10010, 10060}

\* the engine handles open after a call with outcome r: a handle that was
\* dropped without close() stays open until the runtime finalizes the
\* unreferenced fitz.Document, at once or, while something else still refers
\* to it, not at all
Survivors(r) == {handles + r.opened - r.closed - g : g \in 0..r.dropped}

\* the call op(args) with outcome r is recorded and its effects installed,
\* in a run of at most budget calls
ApplyWithin(budget, op, args, r) ==
    /\ calls < budget
    /\ Len(r.doc.pages) <= MaxPages
    /\ calls' = calls + 1
    /\ doc' = r.doc
    /\ page_cache' = r.cache
    /\ touched' = Forget(r.cache)
    /\ handles' \in Survivors(r)
    /\ last' = [Call(op, args, None, r.ret, r.exc, r.rast, r.eng, FALSE)
                    EXCEPT !.msg = r.msg, !.closed = r.closed, !.val = r.val,
                           !.mode = r.mode]
    /\ UNCHANGED <<viewer, max_size, lock, thr, log>>

Apply(op, args, r) == ApplyWithin(MaxCalls, op, args, r)

Load(f) ==
    LET r == PDFDocument_load(doc, page_cache, f)
    IN  /\ Apply("load", <<f>>, r)
        /\ filepath' = IF r.exc = "none" THEN f ELSE filepath

Close ==
    LET r == PDFDocument_close(doc, page_cache)
    IN  /\ Apply("close", <<>>, r)
        /\ filepath' = IF Truthy(doc) THEN "" ELSE filepath

DeletePage(page_number) ==
    /\ Apply("delete_page", <<page_number>>,
             PDFDocument_delete_page(doc, page_cache, page_number))
    /\ UNCHANGED filepath

DeletePages(from_page, to_page) ==
    /\ Apply("delete_pages", <<from_page, to_page>>,
             PDFDocument_delete_pages(doc, page_cache, from_page, to_page))
    /\ UNCHANGED filepath

MovePage(from_page, to_page) ==
    /\ Apply("move_page", <<from_page, to_page>>,
             PDFDocument_move_page(doc, page_cache, from_page, to_page))
    /\ UNCHANGED filepath

CopyPage(page_number, to_page) ==
    /\ Apply("copy_page", <<page_number, to_page>>,
             PDFDocument_copy_page(doc, page_cache, page_number, to_page))
    /\ UNCHANGED filepath

Select(page_list) ==
    /\ Apply("select", page_list, PDFDocument_select(doc, page_cache, page_list))
    /\ UNCHANGED filepath

NewPage(pno) ==
    /\ Apply("new_page", <<pno>>, PDFDocument_new_page(doc, page_cache, pno))
    /\ UNCHANGED filepath

GetPageImageWithin(budget, page_number, zoom) ==
    LET r == PDFDocument_get_page_image(doc, page_cache, max_size, page_number, zoom)
    IN  /\ calls < budget
        /\ calls' = calls + 1
        /\ doc' = r.doc
        /\ page_cache' = r.cache
        /\ touched' = Touch(r.cache, CacheKey(page_number, zoom), r.hit)
        /\ last' = [Call("get_page_image", <<page_number, zoom>>, None, r.ret, r.exc,
                         r.rast, r.eng, ~r.hit) EXCEPT !.msg = r.msg]
        /\ UNCHANGED <<viewer, max_size, filepath, handles, lock, thr, log>>

GetPageImage(page_number, zoom) == GetPageImageWithin(MaxCalls, page_number, zoom)

NextDoc ==
    \/ \E f \in Files : Load(f)
    \/ Close
    \/ \E p \in Indices : DeletePage(p)
    \/ \E a \in Indices, b \in Indices : DeletePages(a, b)
    \/ \E a \in Indices, b \in Indices : MovePage(a, b)
    \/ \E p \in Indices, t \in Indices : CopyPage(p, t)
    \/ \E l \in PageLists : Select(l)
    \/ \E n \in -2..(Len(doc.pages) + 1) : NewPage(n)
    \/ \E p \in Indices, z \in DocZooms : GetPageImage(p, z)

SpecDoc == InitDoc /\ [][NextDoc]_vars

\* SpecSerial: one PDFDocument driven serially through load, get_page_image,
\* delete_page, delete_pages, move_page, copy_page, select and close; no page
\* is inserted at a position.
NextSerial ==
    \/ \E f \in Files : Load(f)
    \/ Close
    \/ \E p \in Indices : DeletePage(p)
    \/ \E a \in Indices, b \in Indices : DeletePages(a, b)
    \/ \E a \in Indices, b \in Indices : MovePage(a, b)
    \/ \E p \in Indices, t \in Indices : CopyPage(p, t)
    \/ \E l \in PageLists : Select(l)
    \/ \E p \in Indices, z \in DocZooms : GetPageImage(p, z)

SpecSerial == InitDoc /\ [][NextSerial]_vars

\* SpecRender: pages are rendered at the three zoom levels, two of which round
\* to the same value, between loads, deletions and close
NextRender ==
    \/ \E f \in Files : Load(f)
    \/ Close
    \/ \E p \in Indices : DeletePage(p)
    \/ \E p \in Indices, z \in Zooms : GetPageImage(p, z)

SpecRender == InitDoc /\ [][NextRender]_vars

\* SpecLeftover: pages are rendered and deleted, in runs long enough to delete
\* every page of the document one call after another while an image rendered
\* for a higher index stays cached.
L_DeletePage(page_number) ==
    /\ ApplyWithin(MaxLeftoverCalls, "delete_page", <<page_number>>,
                   PDFDocument_delete_page(doc, page_cache, page_number))
    /\ UNCHANGED filepath

L_DeletePages(from_page, to_page) ==
    /\ ApplyWithin(MaxLeftoverCalls, "delete_pages", <<from_page, to_page>>,
                   PDFDocument_delete_pages(doc, page_cache, from_page, to_page))
    /\ UNCHANGED filepath

L_GetPageImage(page_number, zoom) ==
    GetPageImageWithin(MaxLeftoverCalls, page_number, zoom)

NextLeftover ==
    \/ \E p \in Indices : L_DeletePage(p)
    \/ \E a \in Indices, b \in Indices : L_DeletePages(a, b)
    \/ \E p \in 0..(MaxPages - 1), z \in DocZooms : L_GetPageImage(p, z)

SpecLeftover == InitDoc /\ [][NextLeftover]_vars

---------------------------------------------------------------------------
(* SpecLife: the life cycle of a PDFDocument. Every public method is called, *)
(* loaded or not, with few argument values each: an index below the range,   *)
(* the first index and the first index above the range.                      *)

LifeIndices == {-1, 0, Len(doc.pages)}

\* (from_page, to_page) and (page, target) pairs: a bad first index, the first
\* page alone, and the first page with the last
LifeRanges == {<<-1, 0>>, <<0, 0>>, <<0, Len(doc.pages) - 1>>}

\* page lists for select: none, the first page, an index above the range
LifeLists == {<<>>, <<0>>, <<Len(doc.pages)>>}

\* the zoom argument of get_page_image
LifeZoom == 10010

Exit ==
    LET r == PDFDocument_exit(doc, page_cache)
    IN  /\ Apply("exit", <<>>, r)
        /\ filepath' = IF Truthy(doc) THEN "" ELSE filepath

Save(f) ==
    /\ Apply("save", <<f>>, PDFDocument_save(doc, page_cache, filepath, f))
    /\ UNCHANGED filepath

GetPageText(page_number) ==
    /\ Apply("get_page_text", <<page_number>>,
             PDFDocument_get_page_text(doc, page_cache, page_number))
    /\ UNCHANGED filepath

SearchPageFor(page_number) ==
    /\ Apply("search_page_for", <<page_number>>,
             PDFDocument_search_page_for(doc, page_cache, page_number))
    /\ UNCHANGED filepath

GetPageImages(page_number) ==
    /\ Apply("get_page_images", <<page_number>>,
             PDFDocument_get_page_images(doc, page_cache, page_number))
    /\ UNCHANGED filepath

ExtractImage(xref) ==
    /\ Apply("extract_image", <<xref>>,
             PDFDocument_extract_image(doc, page_cache, xref))
    /\ UNCHANGED filepath

PageCount ==
    /\ Apply("page_count", <<>>, PDFDocument_page_count(doc, page_cache))
    /\ UNCHANGED filepath

Metadata ==
    /\ Apply("metadata", <<>>, PDFDocument_metadata(doc, page_cache))
    /\ UNCHANGED filepath

Toc ==
    /\ Apply("toc", <<>>, PDFDocument_toc(doc, page_cache))
    /\ UNCHANGED filepath

NextLife ==
    \/ \E f \in Files : Load(f)
    \/ Close
    \/ Exit
    \/ \E f \in SavePaths : Save(f)
    \/ \E p \in LifeIndices : DeletePage(p)
    \/ \E r \in LifeRanges : DeletePages(r[1], r[2])
    \/ \E r \in LifeRanges : MovePage(r[1], r[2])
    \/ \E r \in LifeRanges : CopyPage(r[1], r[2])
    \/ \E l \in LifeLists : Select(l)
    \/ \E n \in LifeIndices : NewPage(n)
    \/ \E p \in LifeIndices : GetPageImage(p, LifeZoom)
    \/ \E p \in LifeIndices : GetPageText(p)
    \/ \E p \in LifeIndices : SearchPageFor(p)
    \/ \E p \in LifeIndices : GetPageImages(p)
    \/ \E x \in Xrefs : ExtractImage(x)
    \/ PageCount
    \/ Metadata
    \/ Toc

SpecLife == InitDoc /\ [][NextLife]_vars

---------------------------------------------------------------------------
(* SpecThreads: the threads of the application share one loaded PDFDocument. *)
(* A thread renders a page (PDFDocument.get_page_image: a cache lookup, on a *)
(* miss the rasterization and a cache insertion) or invalidates and inspects *)
(* the cache as a mutation or close on that thread would (remove_page,       *)
(* clear, cache_info). The body of each DocumentCache method is taken        *)
(* statement by statement; "with self._cache_lock" blocks until the lock is  *)
(* free and releases it when the body is left, also by return or exception.  *)

\* a lock that never makes a thread wait
Mutant_lock_not_exclusive(l) == TRUE

\* with self._cache_lock: the lock can be taken
LockFree(l) == l = Free

\* add_page_image without its test for a key that is already cached
Mutant_never_cached(c, k) == FALSE

\* if cache_key in self._page_cache
AlreadyCached(c, k) == k \in Keys(c)

\* the Pixmap object thread t gets from the engine: two rasterizations of the
\* same page are two objects
Rendered(t, pages, page_number, zoom) ==
    [by |-> t] @@ Engine_get_pixmap(pages, page_number, zoom)

\* the value of cache_info in log entries of the other operations
NoInfo == [size |-> -1, max_size |-> -1, pages |-> <<>>]

\* the log entry of the cache operation op that thread t completes, leaving
\* the cache c1
Entry(t, op, ret, exc, info, c1) ==
    [t |-> t, op |-> op, number |-> thr[t].number, zoom |-> thr[t].zoom,
     image |-> thr[t].image, ret |-> ret, exc |-> exc, info |-> info,
     cache0 |-> thr[t].cache0, cache1 |-> c1]

\* the positions at which a thread is about to enter "with self._cache_lock",
\* and the first statement inside for each
AcquirePoints ==
    {"get_acquire", "add_acquire", "remove_acquire", "clear_acquire", "info_acquire"}

Body(pc) ==
    CASE pc = "get_acquire" -> "get_body"
      [] pc = "add_acquire" -> "add_check"
      [] pc = "remove_acquire" -> "remove_scan"
      [] pc = "clear_acquire" -> "clear_body"
      [] pc = "info_acquire" -> "info_body"

\* the positions inside "with self._cache_lock"
BodyPoints ==
    {"get_body", "add_check", "add_evict", "add_store", "remove_scan", "remove_del",
     "clear_body", "info_body"}

\* the pages the threads render and invalidate: the first two of the document
ThreadPages == {0, 1}

InitThreads ==
    /\ max_size \in 1..MaxCap
    /\ page_cache = <<>>
    /\ doc = [loaded |-> TRUE, pages |-> FilePages("a.pdf")]
    /\ filepath = "a.pdf"
    /\ handles = 1
    /\ touched = <<>>
    /\ last = NoCall
    /\ calls = 0
    /\ NoThreads
    /\ viewer = NoViewer

\* thread t starts the call op with these arguments, at position pc
Start(t, op, number, zoom, pc) ==
    /\ thr[t].pc = "idle"
    /\ calls < MaxThreadCalls
    /\ calls' = calls + 1
    /\ thr' = [thr EXCEPT ![t] = [Idle EXCEPT !.pc = pc, !.op = op,
                                              !.number = number, !.zoom = zoom]]
    /\ UNCHANGED <<viewer, max_size, page_cache, doc, filepath, touched, last, handles,
                   lock, log>>

\* PDFDocument.get_page_image up to the cache lookup: the load test and the
\* range test; out of range it returns None at once
T_GetPageImage(t, page_number, zoom) ==
    Start(t, "get_page_image", page_number, zoom,
          IF Truthy(doc) /\ InRange(doc, page_number) THEN "get_acquire" ELSE "idle")

T_RemovePage(t, page_number) == Start(t, "remove_page", page_number, 0, "remove_acquire")

T_Clear(t) == Start(t, "clear", 0, 0, "clear_acquire")

T_CacheInfo(t) == Start(t, "cache_info", 0, 0, "info_acquire")

\* with self._cache_lock: t takes the lock; the cache it finds is recorded
T_Acquire(t) ==
    /\ thr[t].pc \in AcquirePoints
    /\ LockFree(lock)
    /\ lock' = t
    /\ thr' = [thr EXCEPT ![t].pc = Body(thr[t].pc), ![t].cache0 = page_cache]
    /\ UNCHANGED <<viewer, max_size, page_cache, doc, filepath, touched, last, calls,
                   handles, log>>

\* a lookup that keeps the lock when it misses, until the image is stored
Mutant_lock_kept_on_miss(t, ret) == IF ret = None THEN t ELSE Free

\* the lock when thread t leaves "with self._cache_lock" returning ret: the
\* context manager releases it on return and on exception alike
Released(t, ret) == Free

\* thread u holds an image it rasterized and has not yet inserted, for a
\* page that the operation op on page number invalidates
InFlight(u, op, number) ==
    /\ thr[u].pc = "add_acquire"
    /\ \/ op = "clear"
       \/ op = "remove_page" /\ thr[u].number = number

\* the step of t that leaves the body: the lock is released and the operation
\* logged; t goes on at position pc. A render in flight on another thread
\* whose page the operation invalidated is marked.
Leave(t, op, ret, exc, info, c1, pc) ==
    /\ page_cache' = c1
    /\ lock' = IF op = "get" THEN Released(t, ret) ELSE Free
    /\ log' = <<Entry(t, op, ret, exc, info, c1)>>
    /\ thr' = [u \in Threads |->
                 IF u = t THEN [thr[t] EXCEPT !.pc = pc]
                 ELSE IF InFlight(u, op, thr[t].number)
                      THEN [thr[u] EXCEPT !.invalidated = TRUE]
                      ELSE thr[u]]
    /\ UNCHANGED <<viewer, max_size, doc, filepath, touched, last, calls, handles>>

\* a step of t inside the body: the cache becomes c1, t goes on at pc with the
\* keys todo left to delete
Inside(t, c1, pc, todo) ==
    /\ page_cache' = c1
    /\ thr' = [thr EXCEPT ![t].pc = pc, ![t].todo = todo]
    /\ UNCHANGED <<viewer, max_size, doc, filepath, touched, last, calls, handles, lock, log>>

\* DocumentCache.get_page_image, the body: on a hit PDFDocument.get_page_image
\* returns the cached image, on a miss it goes on to rasterize
T_GetBody(t) ==
    /\ thr[t].pc = "get_body"
    /\ LET r == DocumentCache_get_page_image(page_cache, thr[t].number, thr[t].zoom)
       IN  Leave(t, "get", r.ret, "none", NoInfo, r.cache,
                 IF r.ret # None THEN "idle" ELSE "rasterize")

\* pixmap = page.get_pixmap(matrix=matrix): no lock is held
T_Rasterize(t) ==
    /\ thr[t].pc = "rasterize"
    /\ thr' = [thr EXCEPT ![t].pc = "add_acquire",
                          ![t].image = Rendered(t, doc.pages, thr[t].number, thr[t].zoom)]
    /\ UNCHANGED <<viewer, max_size, page_cache, doc, filepath, touched, last, calls,
                   handles, lock, log>>

\* DocumentCache.add_page_image, the body: the duplicate test and the size test
T_AddCheck(t) ==
    /\ thr[t].pc = "add_check"
    /\ IF AlreadyCached(page_cache, CacheKey(thr[t].number, thr[t].zoom))
       THEN Leave(t, "add", None, "none", NoInfo, page_cache, "idle")
       ELSE Inside(t, page_cache,
                   IF Len(page_cache) >= max_size THEN "add_evict" ELSE "add_store",
                   <<>>)

\* self._page_cache.popitem(last=False): KeyError on an empty cache
T_AddEvict(t) ==
    /\ thr[t].pc = "add_evict"
    /\ IF page_cache = <<>>
       THEN Leave(t, "add", None, "KeyError", NoInfo, page_cache, "idle")
       ELSE Inside(t, Tail(page_cache), "add_store", <<>>)

\* self._page_cache[cache_key] = image
T_AddStore(t) ==
    /\ thr[t].pc = "add_store"
    /\ Leave(t, "add", None, "none", NoInfo,
             Append(page_cache, [key |-> CacheKey(thr[t].number, thr[t].zoom),
                                 image |-> thr[t].image]),
             "idle")

\* keys_to_remove = [k for k in self._page_cache.keys() if k[0] == page_number]
T_RemoveScan(t) ==
    /\ thr[t].pc = "remove_scan"
    /\ Inside(t, page_cache, "remove_del",
              KeyOrder(Filter(page_cache, KeysOfPage(page_cache, thr[t].number))))

\* for key in keys_to_remove: del self._page_cache[key]
T_RemoveDel(t) ==
    /\ thr[t].pc = "remove_del"
    /\ IF thr[t].todo = <<>>
       THEN Leave(t, "remove_page", None, "none", NoInfo, page_cache, "idle")
       ELSE Inside(t, DelKey(page_cache, Head(thr[t].todo)), "remove_del",
                   Tail(thr[t].todo))

\* self._page_cache.clear()
T_ClearBody(t) ==
    /\ thr[t].pc = "clear_body"
    /\ Leave(t, "clear", None, "none", NoInfo, <<>>, "idle")

\* return {"size": ..., "max_size": ..., "pages": ...}
T_InfoBody(t) ==
    /\ thr[t].pc = "info_body"
    /\ Leave(t, "cache_info", None, "none",
             DocumentCache_cache_info(page_cache, max_size), page_cache, "idle")

NextThreads ==
    \E t \in Threads :
        \/ \E n \in ThreadPages, z \in DocZooms : T_GetPageImage(t, n, z)
        \/ \E n \in ThreadPages : T_RemovePage(t, n)
        \/ T_Clear(t)
        \/ T_CacheInfo(t)
        \/ T_Acquire(t)
        \/ T_GetBody(t)
        \/ T_Rasterize(t)
        \/ T_AddCheck(t)
        \/ T_AddEvict(t)
        \/ T_AddStore(t)
        \/ T_RemoveScan(t)
        \/ T_RemoveDel(t)
        \/ T_ClearBody(t)
        \/ T_InfoBody(t)

SpecThreads == InitThreads /\ [][NextThreads]_vars

\* the steps of a call that thread t has started
ThreadStep(t) ==
    \/ T_Acquire(t)
    \/ T_GetBody(t)
    \/ T_Rasterize(t)
    \/ T_AddCheck(t)
    \/ T_AddEvict(t)
    \/ T_AddStore(t)
    \/ T_RemoveScan(t)
    \/ T_RemoveDel(t)
    \/ T_ClearBody(t)
    \/ T_InfoBody(t)

\* FairThreads: the threads under a fair scheduler.  A thread inside a call is
\* not left waiting for ever: it runs again while it can take a step, and a
\* thread waiting for the lock gets it if the lock is free again and again.
\* Whether a thread starts another call at all is up to the application.
\* The calls are those of SpecThreads on one page at two zoom levels: two
\* keys, so that lookups hit and miss, adds meet a cached key and evict.
NextFair ==
    \E t \in Threads :
        \/ \E z \in DocZooms : T_GetPageImage(t, 0, z)
        \/ T_RemovePage(t, 0)
        \/ T_Clear(t)
        \/ T_CacheInfo(t)
        \/ ThreadStep(t)

FairThreads ==
    InitThreads /\ [][NextFair]_vars /\ \A t \in Threads : SF_vars(ThreadStep(t))

---------------------------------------------------------------------------
(* SpecViewer: a PDFViewerWidget driven through its slots and events. Zoom   *)
(* levels are in hundredths; a product or quotient of zoom levels drops the  *)
(* fraction below a hundredth. Where the scroll bar ends up, and which page  *)
(* label is then the most visible one, depends on the layout of the labels,  *)
(* which is not followed: either outcome of setValue is possible and any     *)
(* label can be the most visible one.                                        *)

\* the zoom limits of set_zoom, 0.1 and 5.0, and the initial zoom level 1.0
ZoomMin == 10
ZoomMax == 500
ZoomDefault == 100

\* PDFViewerWidget.__init__
PDFViewerWidget_init ==
    [current_page |-> 0, total_pages |-> 0, page_labels |-> 0,
     zoom_level |-> ZoomDefault, op |-> "init", arg |-> 0, ret |-> "None",
     emitted |-> <<>>, current_page0 |-> 0, zoom_level0 |-> ZoomDefault]

\* the widget v at the start of the call op(arg): nothing emitted yet
Called(v, op, arg) ==
    [v EXCEPT !.op = op, !.arg = arg, !.ret = "None", !.emitted = <<>>,
              !.current_page0 = v.current_page, !.zoom_level0 = v.zoom_level]

\* signal.emit(value)
Emit(v, signal, value) == [v EXCEPT !.emitted = Append(@, <<signal, value>>)]

\* set_zoom without the lower limit
Mutant_set_zoom_no_floor(v, zoom_level) ==
    [v EXCEPT !.zoom_level = IF zoom_level > ZoomMax THEN ZoomMax ELSE zoom_level]

\* PDFViewerWidget.set_zoom: max(0.1, min(5.0, zoom_level))
PDFViewerWidget_set_zoom(v, zoom_level) ==
    LET z == IF zoom_level > ZoomMax THEN ZoomMax
             ELSE IF zoom_level < ZoomMin THEN ZoomMin
             ELSE zoom_level
    IN  IF z # v.zoom_level THEN [v EXCEPT !.zoom_level = z] ELSE v

\* PDFViewerWidget.clear
PDFViewerWidget_clear(v) ==
    [v EXCEPT !.page_labels = 0, !.total_pages = 0, !.current_page = 0]

\* PDFViewerWidget._on_scroll_changed when most_visible is the page found to
\* have the largest visible area (current_page when no label is visible)
PDFViewerWidget_on_scroll_changed(v, most_visible) ==
    IF most_visible # v.current_page
    THEN Emit([v EXCEPT !.current_page = most_visible], "pageChanged", most_visible)
    ELSE v

\* the pages _on_scroll_changed can find most visible: the page of any label,
\* or current_page
Visible(v) == {v.current_page} \cup 0..(v.page_labels - 1)

InitViewer ==
    /\ max_size = MaxCap
    /\ page_cache = <<>>
    /\ doc = NoDoc
    /\ filepath = ""
    /\ touched = <<>>
    /\ last = NoCall
    /\ calls = 0
    /\ handles = 0
    /\ NoThreads
    /\ viewer = PDFViewerWidget_init

\* PDFViewerWidget.set_zoom
SetZoom(z) ==
    /\ viewer' = PDFViewerWidget_set_zoom(Called(viewer, "set_zoom", z), z)
    /\ UNCHANGED <<max_size, page_cache, doc, filepath, touched, last, calls,
                   handles, lock, thr, log>>

\* PDFViewerWidget.zoom_in: set_zoom(min(5.0, self.zoom_level * 1.1))
ZoomIn ==
    /\ LET z == (viewer.zoom_level * 11) \div 10
       IN  viewer' = PDFViewerWidget_set_zoom(Called(viewer, "zoom_in", 0),
                                              IF z > ZoomMax THEN ZoomMax ELSE z)
    /\ UNCHANGED <<max_size, page_cache, doc, filepath, touched, last, calls,
                   handles, lock, thr, log>>

\* PDFViewerWidget.zoom_out: set_zoom(max(0.1, self.zoom_level / 1.1))
ZoomOut ==
    /\ LET z == (viewer.zoom_level * 10) \div 11
       IN  viewer' = PDFViewerWidget_set_zoom(Called(viewer, "zoom_out", 0),
                                              IF z < ZoomMin THEN ZoomMin ELSE z)
    /\ UNCHANGED <<max_size, page_cache, doc, filepath, touched, last, calls,
                   handles, lock, thr, log>>

\* PDFViewerWidget.reset_zoom: set_zoom(1.0)
ResetZoom ==
    /\ viewer' = PDFViewerWidget_set_zoom(Called(viewer, "reset_zoom", 0), ZoomDefault)
    /\ UNCHANGED <<max_size, page_cache, doc, filepath, touched, last, calls,
                   handles, lock, thr, log>>

\* wheelEvent / eventFilter with the Ctrl modifier, steps = angleDelta().y() / 120:
\* factor = 1.0 + steps * 0.1, set_zoom(self.zoom_level * factor), then
\* zoomChanged is emitted with the resulting zoom level
WheelEvent(steps) ==
    /\ LET w == PDFViewerWidget_set_zoom(Called(viewer, "wheelEvent", steps),
                                         (viewer.zoom_level * (10 + steps)) \div 10)
       IN  viewer' = Emit(w, "zoomChanged", w.zoom_level)
    /\ UNCHANGED <<max_size, page_cache, doc, filepath, touched, last, calls,
                   handles, lock, thr, log>>

\* PDFViewerWidget.set_document: clear(), the new labels, pageChanged(0)
SetDocument(total_pages) ==
    /\ LET w == PDFViewerWidget_clear(Called(viewer, "set_document", total_pages))
       IN  viewer' = Emit([w EXCEPT !.total_pages = total_pages,
                                    !.current_page = 0,
                                    !.page_labels = total_pages],
                          "pageChanged", 0)
    /\ UNCHANGED <<max_size, page_cache, doc, filepath, touched, last, calls,
                   handles, lock, thr, log>>

\* PDFViewerWidget.clear
Clear ==
    /\ viewer' = PDFViewerWidget_clear(Called(viewer, "clear", 0))
    /\ UNCHANGED <<max_size, page_cache, doc, filepath, touched, last, calls,
                   handles, lock, thr, log>>

\* the user moves the scroll bar: valueChanged runs _on_scroll_changed
ScrollChanged(most_visible) ==
    /\ viewer' = PDFViewerWidget_on_scroll_changed(
                     Called(viewer, "_on_scroll_changed", most_visible), most_visible)
    /\ UNCHANGED <<max_size, page_cache, doc, filepath, touched, last, calls,
                   handles, lock, thr, log>>

\* PDFViewerWidget.go_to_page.  verticalScrollBar().setValue(target_y) emits
\* valueChanged when the value changes (moved), and valueChanged is connected
\* to _on_scroll_changed, which then runs before go_to_page goes on.
GoToPage(page_number, moved, most_visible) ==
    /\ LET v == Called(viewer, "go_to_page", page_number)
           w == IF moved THEN PDFViewerWidget_on_scroll_changed(v, most_visible) ELSE v
       IN  viewer' =
               IF 0 <= page_number /\ page_number < v.page_labels
               THEN [Emit([w EXCEPT !.current_page = page_number],
                          "pageChanged", page_number)
                        EXCEPT !.ret = "True"]
               ELSE [v EXCEPT !.ret = "False"]
    /\ UNCHANGED <<max_size, page_cache, doc, filepath, touched, last, calls,
                   handles, lock, thr, log>>

\* set_zoom is asked for 0.05, 0.1, 1.0, 2.5, 5.0 and 6.0; the wheel goes a
\* long way down, one notch down or one notch up
NextViewer ==
    \/ \E z \in {5, ZoomMin, ZoomDefault, 250, ZoomMax, 600} : SetZoom(z)
    \/ ZoomIn
    \/ ZoomOut
    \/ ResetZoom
    \/ \E s \in {-12, -1, 1} : WheelEvent(s)
    \/ \E n \in 0..MaxLabels : SetDocument(n)
    \/ Clear
    \/ \E m \in Visible(viewer) : ScrollChanged(m)
    \/ \E n \in -1..MaxLabels, moved \in BOOLEAN, m \in Visible(viewer) :
           GoToPage(n, moved, m)

SpecViewer == InitViewer /\ [][NextViewer]_vars

---------------------------------------------------------------------------
(* Properties of the stand-alone cache *)

\* the key of the last get or add
LastKey == CacheKey(last.args[1], last.args[2])

\* the last call was an add_page_image that put a new key into the cache
Inserted ==
    /\ last.op = "add"
    /\ LastKey \notin Keys(last.cache0)
    /\ LastKey \in Keys(page_cache)

\* the last call was an add_page_image of a new key into a full cache
InsertedIntoFull == Inserted /\ Len(last.cache0) = max_size

\* the call before the last was a lookup that hit, and the key it looked up
PrevHit == last.prev.op # "other" /\ ~last.prev.missed

PrevKey == CacheKey(last.prev.args[1], last.prev.args[2])

\* C1: after every completed operation the number of cached entries is at
\* most max_size.
C1_SizeBound == Len(page_cache) <= max_size

C1_Witness ==
    /\ InsertedIntoFull
    /\ max_size = MaxCap
    /\ Len(page_cache) = max_size

\* C2: an add_page_image that inserts a new key into a cache holding max_size
\* entries evicts exactly one entry, the one whose last successful lookup or
\* insertion is oldest; every other entry stays, with its image.
C2_EvictsLRU ==
    InsertedIntoFull =>
        /\ last.touched0 # <<>>
        /\ Keys(page_cache) =
               (Keys(last.cache0) \ {Head(last.touched0)}) \cup {LastKey}
        /\ Head(last.touched0) \in Keys(last.cache0)
        /\ Len(page_cache) = Len(last.cache0)
        /\ Cardinality(Keys(page_cache)) = Len(page_cache)
        /\ \A k \in Keys(last.cache0) \ {Head(last.touched0)} :
               Item(page_cache, k) = Item(last.cache0, k)
        /\ Item(page_cache, LastKey) = last.image

C2_Witness ==
    /\ InsertedIntoFull
    /\ max_size >= 2
    /\ last.cache0[1].key # Head(Tail(last.cache0)).key
    /\ Head(last.touched0) \notin Keys(page_cache)

\* C3: a get_page_image hit on k makes k the most recently used entry: it is
\* last in the cache's order, and when the next call inserts a new key into
\* the full cache (max_size >= 2), k stays and the entry evicted is the least
\* recently used of the others.
C3_HitPromotes ==
    /\ (last.op = "get" /\ last.ret # None) =>
            /\ page_cache # <<>>
            /\ page_cache[Len(page_cache)].key = LastKey
            /\ Keys(page_cache) = Keys(last.cache0)
    /\ (InsertedIntoFull /\ max_size >= 2 /\ PrevHit) =>
            LET k == PrevKey
                others == Restrict(last.touched0, Keys(last.cache0) \ {k})
            IN  /\ k \in Keys(page_cache)
                /\ Item(page_cache, k) = Item(last.cache0, k)
                /\ others # <<>>
                /\ Keys(page_cache) =
                       (Keys(last.cache0) \ {Head(others)}) \cup {LastKey}

C3_Witness ==
    /\ InsertedIntoFull
    /\ max_size >= 2
    /\ PrevHit
    /\ PrevKey \in Keys(page_cache)
    /\ Len(page_cache) = max_size

\* C4: add_page_image for a key that is already cached changes nothing: the
\* image stored first stays, whatever image the second add passes, the size is
\* unchanged, and a hit returns the stored image. No call changes the image
\* of a key that stays cached.
C4_FirstWriteWins ==
    /\ (last.op = "add" /\ LastKey \in Keys(last.cache0)) =>
            /\ LastKey \in Keys(page_cache)
            /\ Item(page_cache, LastKey) = Item(last.cache0, LastKey)
            /\ Len(page_cache) = Len(last.cache0)
    /\ \A k \in Keys(last.cache0) \cap Keys(page_cache) :
            Item(page_cache, k) = Item(last.cache0, k)
    /\ (last.op = "get" /\ LastKey \in Keys(last.cache0)) =>
            last.ret = Item(last.cache0, LastKey)

C4_Witness ==
    /\ last.op = "add"
    /\ LastKey \in Keys(last.cache0)
    /\ last.image # Item(last.cache0, LastKey)
    /\ Item(page_cache, LastKey) = Item(last.cache0, LastKey)

\* C17: remove_page(p) removes every entry of page p, whatever its zoom: a
\* lookup of p misses at every zoom afterwards; and entries for a page only
\* come into the cache by an add_page_image for that page, so the lookups
\* keep missing until then.
C17_RemovePageAllZooms ==
    /\ last.op = "remove_page" =>
            /\ KeysOfPage(page_cache, last.args[1]) = {}
            /\ \A z \in Zooms :
                   DocumentCache_get_page_image(page_cache, last.args[1], z).ret = None
    /\ Keys(page_cache) \subseteq
            Keys(last.cache0) \cup (IF last.op = "add" THEN {LastKey} ELSE {})
    /\ (last.op = "get" /\ KeysOfPage(last.cache0, last.args[1]) = {}) =>
            last.ret = None

\* the page removed was cached at two zoom levels
C17_Witness ==
    /\ last.op = "remove_page"
    /\ Cardinality(KeysOfPage(last.cache0, last.args[1])) = 2
    /\ KeysOfPage(page_cache, last.args[1]) = {}

\* C18: an add_page_image for a key that is already cached leaves the recency
\* order as it was: the keys keep their order, and whatever key is inserted
\* next, the cache ends up exactly as it would have without the duplicate add
\* (the same entry is evicted).
C18_DuplicateAddKeepsRecency ==
    (last.op = "add" /\ LastKey \in Keys(last.cache0)) =>
        /\ KeyOrder(page_cache) = KeyOrder(last.cache0)
        /\ \A n \in PageNumbers, z \in Zooms, i \in MockPixmaps :
               DocumentCache_add_page_image(page_cache, max_size, n, i, z) =
               DocumentCache_add_page_image(last.cache0, max_size, n, i, z)

\* max_size = 2, the cache holds k1 (older) and k2, k1 is added again with
\* another image: the next new key evicts k1
C18_Witness ==
    /\ last.op = "add"
    /\ max_size = 2 /\ Len(last.cache0) = 2
    /\ LastKey = last.cache0[1].key
    /\ last.image # last.cache0[1].image
    /\ \E n \in PageNumbers, z \in Zooms, i \in MockPixmaps :
           LET after == DocumentCache_add_page_image(page_cache, max_size, n, i, z).cache
           IN  /\ CacheKey(n, z) \notin Keys(page_cache)
               /\ LastKey \notin Keys(after)
               /\ last.cache0[2].key \in Keys(after)

\* C19: a get_page_image that misses returns None and changes nothing: the
\* entries, their images and their order are as before, so the next eviction
\* takes the entry it would have taken without the lookup.
C19_MissNoSideEffects ==
    (last.op = "get" /\ LastKey \notin Keys(last.cache0)) =>
        /\ last.ret = None
        /\ last.exc = "none"
        /\ page_cache = last.cache0
        /\ \A n \in PageNumbers, z \in Zooms, i \in MockPixmaps :
               DocumentCache_add_page_image(page_cache, max_size, n, i, z) =
               DocumentCache_add_page_image(last.cache0, max_size, n, i, z)

\* a miss on a full cache that holds the page at another zoom
C19_Witness ==
    /\ last.op = "get" /\ last.ret = None
    /\ Len(last.cache0) = max_size /\ max_size = MaxCap
    /\ KeysOfPage(last.cache0, last.args[1]) # {}
    /\ page_cache = last.cache0

\* C21: clear() leaves the cache empty: its size is 0, cache_info reports no
\* page, and a lookup of any key that was cached misses; a key comes back
\* only by an add_page_image for that key.
C21_ClearEmpties ==
    /\ last.op = "clear" =>
            /\ page_cache = <<>>
            /\ DocumentCache_cache_info(page_cache, max_size).size = 0
            /\ Len(DocumentCache_cache_info(page_cache, max_size).pages) = 0
            /\ \A k \in Keys(last.cache0) :
                   \A z \in {y \in Zooms : CacheKey(k[1], y) = k} :
                       DocumentCache_get_page_image(page_cache, k[1], z).ret = None
    /\ (last.op # "add" \/ last.exc # "none") =>
            Keys(page_cache) \subseteq Keys(last.cache0)

\* a full cache was cleared
C21_Witness ==
    /\ last.op = "clear"
    /\ Len(last.cache0) = MaxCap
    /\ page_cache = <<>>

\* the entry a lookup hit at (number, zoom) in cache c addresses: the key that
\* the hit leaves at the most recently used end, no key when the lookup misses
Addressed(c, number, zoom) ==
    LET r == DocumentCache_get_page_image(c, number, zoom)
    IN  IF r.ret = None THEN <<>> ELSE r.cache[Len(r.cache)].key

\* C22: cache keys use the zoom rounded to 2 decimals.  After an
\* add_page_image(page, image, z1) whose key is in the cache, a lookup of the
\* same page at z2 addresses that entry exactly when round(z1, 2) =
\* round(z2, 2); 1.001 and 1.0049 share an entry and 1.006 is another one; and
\* an add at a zoom whose rounding differs from a cached one for the same page
\* makes a second entry, both counted in the size.
C22_ZoomRounding ==
    /\ Round2(10010) = Round2(10049)
    /\ Round2(10060) # Round2(10010)
    /\ (last.op = "add" /\ last.exc = "none") =>
            /\ LastKey \in Keys(page_cache)
            /\ \A z2 \in Zooms :
                   (Addressed(page_cache, last.args[1], z2) = LastKey)
                       <=> (Round2(z2) = Round2(last.args[2]))
            /\ \A z2 \in Zooms :
                   (/\ Round2(z2) # Round2(last.args[2])
                    /\ LastKey \notin Keys(last.cache0)
                    /\ CacheKey(last.args[1], z2) \in Keys(last.cache0)
                    /\ Len(last.cache0) < max_size)
                       => /\ CacheKey(last.args[1], z2) \in Keys(page_cache)
                          /\ CacheKey(last.args[1], z2) # LastKey
                          /\ Len(page_cache) = Len(last.cache0) + 1
                          /\ DocumentCache_cache_info(page_cache, max_size).size
                                 = Len(last.cache0) + 1

\* an add at 1.006 made a second entry beside the one made at 1.001 for the
\* same page, and a lookup at 1.0049 addresses the older one
C22_Witness ==
    /\ Inserted
    /\ last.args[2] = 10060
    /\ CacheKey(last.args[1], 10010) \in Keys(last.cache0)
    /\ Len(page_cache) = 2
    /\ Addressed(page_cache, last.args[1], 10049) = CacheKey(last.args[1], 10010)

\* C23: every DocumentCache operation is total.  For every max_size the
\* constructor accepts (0 included) and every reachable cache, no call of
\* get_page_image, add_page_image, remove_page, clear or cache_info raises:
\* a lookup returns an image or None, an add stores its image or leaves the
\* cache as it was, and remove_page of a page without entries changes nothing.
C23_CacheTotal ==
    /\ last.op \in {"get", "add", "remove_page", "clear", "cache_info"} =>
            last.exc = "none"
    /\ last.op = "get" =>
            \/ last.ret = None
            \/ \E i \in 1..Len(last.cache0) : last.ret = last.cache0[i].image
    /\ last.op = "add" =>
            \/ page_cache = last.cache0
            \/ Item(page_cache, LastKey) = last.image
    /\ (last.op = "remove_page" /\ KeysOfPage(last.cache0, last.args[1]) = {}) =>
            page_cache = last.cache0

\* C27: cache_info is a consistent read-only snapshot.  size is the number
\* of cached entries, max_size the configured capacity, pages the ascending
\* duplicate-free list of the page indices with at least one entry (so
\* len(pages) <= size, and pages is empty exactly when size is 0); reading it
\* changes neither the contents nor the recency order.
C27_CacheInfoSnapshot ==
    LET info == DocumentCache_cache_info(page_cache, max_size)
    IN  /\ info.size = Len(page_cache)
        /\ info.max_size = max_size
        /\ \A i \in 1..Len(info.pages) : \A j \in 1..Len(info.pages) :
               i < j => info.pages[i] < info.pages[j]
        /\ {info.pages[i] : i \in 1..Len(info.pages)}
               = {p \in PageNumbers : KeysOfPage(page_cache, p) # {}}
        /\ Len(info.pages) <= info.size
        /\ (info.pages = <<>>) <=> (info.size = 0)
        /\ last.op = "cache_info" =>
               /\ last.args = <<info.size, info.max_size, info.pages>>
               /\ last.exc = "none"
               /\ page_cache = last.cache0
               /\ touched = last.touched0

\* cache_info read on a cache that holds one page at two zooms, the higher
\* page index having been cached first
C27_Witness ==
    /\ last.op = "cache_info"
    /\ Len(page_cache) = 2
    /\ last.args[3] = <<1>>
    /\ page_cache[1].key[2] # page_cache[2].key[2]

\* the positions in cache c of the entries of pages other than p
OtherPages(c, p) == {i \in 1..Len(c) : c[i].key[1] # p}

\* C35: remove_page(p) leaves every entry of another page where it was: each
\* is still cached with the same image, they are in the same relative recency
\* order (the next eviction victim among them is the same), nothing else is
\* in the cache, and remove_page of a page without entries changes nothing.
C35_RemovePageFrame ==
    last.op = "remove_page" =>
        LET p == last.args[1]
            c0 == last.cache0
            keep == OtherPages(c0, p)
        IN  /\ last.exc = "none"
            /\ \A i \in keep : \E j \in 1..Len(page_cache) : page_cache[j] = c0[i]
            /\ \A j \in 1..Len(page_cache) : \E i \in keep : c0[i] = page_cache[j]
            /\ \A i1 \in keep : \A i2 \in keep :
                   i1 < i2 => IndexOf(page_cache, c0[i1].key)
                                 < IndexOf(page_cache, c0[i2].key)
            /\ keep # {} =>
                   page_cache[1] = c0[CHOOSE i \in keep : \A k \in keep : i <= k]
            /\ KeysOfPage(c0, p) = {} => page_cache = c0

\* the entry of the removed page lay between two entries of the other page
C35_Witness ==
    /\ last.op = "remove_page"
    /\ Len(last.cache0) = 3
    /\ last.cache0[2].key[1] = last.args[1]
    /\ page_cache = <<last.cache0[1], last.cache0[3]>>
    /\ page_cache[1].image # page_cache[2].image

---------------------------------------------------------------------------
(* Properties of PDFDocument *)

\* the page count the last call started from
Count0 == Len(last.doc0.pages)

\* the last call completed without raising
Succeeded(op) == last.op = op /\ last.exc = "none"

\* the entries of c for page indices other than those in removed
Others(c, removed) == Filter(c, {k \in Keys(c) : k[1] \notin removed})

\* C5: get_page_image is read-through. For a valid index, a cached entry for
\* (page, round(zoom, 2)) is returned without rasterizing; otherwise the page
\* is rasterized once at the requested zoom, stored and returned. A call that
\* directly repeats a get_page_image(p, z) returns the same image and does not
\* rasterize.
C5_ReadThrough ==
    /\ (last.op = "get_page_image" /\ Truthy(last.doc0) /\ InRange(last.doc0, last.args[1])) =>
           /\ last.exc = "none"
           /\ IF LastKey \in Keys(last.cache0)
              THEN /\ last.ret = Item(last.cache0, LastKey)
                   /\ last.rast = 0
              ELSE /\ last.ret = Pixmap(last.doc0.pages[last.args[1] + 1], last.args[2])
                   /\ last.rast = 1
           /\ LastKey \in Keys(page_cache)
           /\ Item(page_cache, LastKey) = last.ret
           /\ doc = last.doc0
    /\ (last.op = "get_page_image" /\ last.prev.op = "get_page_image"
            /\ last.prev.args = last.args) =>
           /\ last.ret = last.prev.ret
           /\ last.rast = 0

C5_Witness ==
    /\ last.op = "get_page_image"
    /\ last.prev.op = "get_page_image"
    /\ last.prev.args = last.args
    /\ last.prev.missed
    /\ last.ret = last.prev.ret
    /\ last.rast = 0

\* the page indices a delete_page / delete_pages call removed
Removed ==
    IF last.op = "delete_page" THEN {last.args[1]} ELSE last.args[1]..last.args[2]

\* C6: after a successful delete_page or delete_pages the cache holds no
\* entry for a removed index, at any zoom, and every entry cached for another
\* index is still cached, in the same order, and a cache lookup returns its
\* image.
C6_DeleteInvalidates ==
    (Succeeded("delete_page") \/ Succeeded("delete_pages")) =>
        /\ \A k \in Keys(page_cache) : k[1] \notin Removed
        /\ page_cache = Others(last.cache0, Removed)
        /\ \A k \in Keys(last.cache0) :
               k[1] \notin Removed =>
                   DocumentCache_get_page_image(page_cache, k[1], k[2] * 100).ret
                       = Item(last.cache0, k)
        /\ Len(doc.pages) = Count0 - Cardinality(Removed)

C6_Witness ==
    /\ Succeeded("delete_pages")
    /\ \E k \in Keys(last.cache0) : k[1] \in Removed
    /\ \E k \in Keys(last.cache0) : k[1] \notin Removed
    /\ Len(page_cache) = 1

\* C7: after a successful move_page(from, to) the cache holds no entry for
\* from and none for to, and every other index shows the same page as before.
C7_MoveInvalidatesChanged ==
    Succeeded("move_page") =>
        /\ \A k \in Keys(page_cache) : k[1] \notin {last.args[1], last.args[2]}
        /\ \A i \in 0..(Count0 - 1) :
               i \notin {last.args[1], last.args[2]} =>
                   doc.pages[i + 1] = last.doc0.pages[i + 1]

\* C8: after a successful copy_page or select the cache is empty; a call
\* rejected for an out-of-range index leaves the cache as it was.
C8_CopySelectClear ==
    /\ (Succeeded("copy_page") \/ Succeeded("select")) => page_cache = <<>>
    /\ (last.op \in {"copy_page", "select"} /\ last.exc = "PDFPageError") =>
           /\ page_cache = last.cache0
           /\ doc = last.doc0

C8_Witness ==
    /\ Succeeded("copy_page")
    /\ last.cache0 # <<>>
    /\ page_cache = <<>>
    /\ Len(doc.pages) = Count0 + 1

\* C9: a new_page(pno) that inserts a page removes, for pno >= 0, exactly the
\* entries whose page index is pno and leaves the entries of every other
\* index, higher ones included; for pno = -1 it leaves the cache unchanged.
C9_NewPageInvalidates ==
    Succeeded("new_page") =>
        /\ Len(doc.pages) = Count0 + 1
        /\ IF last.args[1] >= 0
           THEN page_cache = Others(last.cache0, {last.args[1]})
           ELSE page_cache = last.cache0

C9_Witness ==
    /\ Succeeded("new_page")
    /\ last.args[1] >= 0
    /\ \E k \in Keys(last.cache0) : k[1] = last.args[1]
    /\ page_cache = <<>>

\* the last call's page-index arguments are not all in their valid range
BadIndex ==
    \/ last.op = "delete_page" /\ ~InRange(last.doc0, last.args[1])
    \/ last.op = "delete_pages"
           /\ ~(0 <= last.args[1] /\ last.args[1] <= last.args[2] /\ last.args[2] < Count0)
    \/ last.op = "move_page"
           /\ ~(InRange(last.doc0, last.args[1]) /\ InRange(last.doc0, last.args[2]))
    \/ last.op = "copy_page"
           /\ ~(InRange(last.doc0, last.args[1])
                  /\ (last.args[2] = -1 \/ InRange(last.doc0, last.args[2])))
    \/ last.op = "select"
           /\ \E i \in 1..Len(last.args) : ~InRange(last.doc0, last.args[i])
    \/ last.op = "new_page" /\ ~(-1 <= last.args[1] /\ last.args[1] <= Count0)

\* C10: a mutation call on a loaded document with a page-index argument out
\* of range raises PDFPageError before any engine call and changes neither the
\* pages nor the cache.
C10_RejectsBeforeEngine ==
    (last.doc0.loaded /\ BadIndex) =>
        /\ last.exc = "PDFPageError"
        /\ last.eng = 0
        /\ doc = last.doc0
        /\ page_cache = last.cache0

---------------------------------------------------------------------------
(* Properties of the life cycle *)

\* the methods wrapped by require_document
Guarded ==
    {"delete_page", "delete_pages", "move_page", "copy_page", "select", "new_page",
     "get_page_image", "get_page_text", "search_page_for", "get_page_images",
     "extract_image"}

\* the last call left the handle, the path, the cache and the open handles alone
Untouched ==
    /\ doc = last.doc0
    /\ filepath = last.filepath0
    /\ page_cache = last.cache0
    /\ handles = last.handles0

\* C11: a guarded method or save called while no handle is held raises
\* PDFDocumentError whatever its arguments are, without calling the engine,
\* and leaves the document unloaded and the cache as it was.
C11_UnloadedRaises ==
    (last.op \in Guarded \cup {"save"} /\ ~last.doc0.loaded) =>
        /\ last.exc = "PDFDocumentError"
        /\ last.eng = 0 /\ last.rast = 0 /\ last.mode = ""
        /\ ~doc.loaded
        /\ Untouched

\* delete_pages with a range that is out of range, on a closed document
C11_Witness ==
    /\ last.op = "delete_pages" /\ last.args = <<-1, 0>>
    /\ ~last.doc0.loaded /\ last.filepath0 = ""
    /\ calls = MaxCalls
    /\ last.exc = "PDFDocumentError"

\* C12: a successful load on a document that holds a handle closes that handle
\* and empties the cache, and at most one engine handle opened by the
\* document is open after any sequence of calls.
C12_ReloadClosesOld ==
    /\ (last.op = "load" /\ last.exc = "none" /\ last.doc0.loaded) =>
            (last.closed = 1 /\ page_cache = <<>>)
    /\ handles <= 1

\* C13: close(), and leaving a with-block, on a document that holds a handle
\* closes the handle, empties the cache and resets filepath, leaving the
\* document unloaded; on a document that holds none it changes nothing; it
\* never raises.
C13_CloseReleases ==
    last.op \in {"close", "exit"} =>
        /\ last.exc = "none"
        /\ IF last.doc0.loaded
           THEN /\ doc = NoDoc
                /\ page_cache = <<>>
                /\ filepath = ""
                /\ last.closed = 1
                /\ handles = last.handles0 - 1
           ELSE Untouched

\* C14: the document goes from holding no handle to holding one only in a
\* successful load (PDFDocument(filepath) makes it in the constructor), and
\* from holding one to holding none only in close (also called on leaving a
\* with-block) or in a failed load; every other call, successful or not,
\* leaves the load state as it was.
C14_LoadStateMachine ==
    (doc.loaded # last.doc0.loaded) =>
        IF doc.loaded
        THEN \/ last.op = "load" /\ last.exc = "none"
             \/ last.op = "init" /\ filepath # ""
        ELSE \/ last.op \in {"close", "exit"}
             \/ last.op = "load" /\ last.exc # "none"

\* a mutation removed the last page and the handle is still held
C14_Witness ==
    /\ last.op = "delete_pages" /\ last.exc = "none"
    /\ Len(last.doc0.pages) > 0
    /\ doc.loaded /\ doc.pages = <<>>

\* C20: a load of a path the engine cannot open raises PDFDocumentError with
\* the engine's diagnostic text in its message and leaves the handle, the
\* filepath, the cache and the open handles exactly as they were.
C20_FailedLoadKeepsState ==
    (last.op = "load" /\ ~CanOpen(last.args[1])) =>
        /\ last.exc = "PDFDocumentError"
        /\ last.msg = "Failed to open PDF document: " \o Diagnostic(last.args[1])
        /\ last.closed = 0
        /\ Untouched

\* a failed load on a loaded document whose cache holds an image
C20_Witness ==
    /\ last.op = "load" /\ last.exc = "PDFDocumentError"
    /\ last.doc0.loaded /\ last.filepath0 = "a.pdf"
    /\ Len(last.cache0) > 0
    /\ doc.loaded /\ Len(page_cache) > 0

\* C24: on a Loaded document, get_page_image(i, z) with i < 0 or
\* i >= page_count returns None without raising, without asking the engine to
\* load or rasterize a page, and without changing the cache contents or their
\* recency order.
C24_OutOfRangeReturnsNone ==
    (/\ last.op = "get_page_image"
     /\ last.doc0.loaded
     /\ ~InRange(last.doc0, last.args[1])) =>
        /\ last.exc = "none"
        /\ last.ret = None
        /\ last.eng = 0
        /\ last.rast = 0
        /\ page_cache = last.cache0
        /\ touched = last.touched0
        /\ doc = last.doc0

\* C25: in the Unloaded state the read accessors page_count, metadata and toc
\* never raise and return 0, an empty dict and an empty list; they call
\* nothing of the engine and change neither the load state nor the cache.
C25_UnloadedAccessorDefaults ==
    (last.op \in {"page_count", "metadata", "toc"} /\ ~last.doc0.loaded) =>
        /\ last.exc = "none"
        /\ last.op = "page_count" => last.val = "0"
        /\ last.op = "metadata" => last.val = "{}"
        /\ last.op = "toc" => last.val = "[]"
        /\ last.eng = 0
        /\ ~doc.loaded
        /\ Untouched

\* metadata read after the document was unloaded by an earlier call
C25_Witness ==
    /\ last.op = "metadata"
    /\ ~last.doc0.loaded
    /\ last.val = "{}"
    /\ calls > 1

\* the exception classes of pdf_errors.py
PDFErrors ==
    {"PDFError", "PDFDocumentError", "PDFPageError", "PDFImageError", "PDFTextError"}

\* C26: every exception that escapes a PDFDocument operation is PDFError or
\* one of its subclasses.  A failure of the engine during load, save, render
\* or a mutation is wrapped, with the engine's diagnostic text kept in the
\* message, and no raw engine exception reaches the caller.
C26_OnlyPDFErrorsEscape ==
    /\ last.exc \in PDFErrors \cup {"none"}
    /\ (last.op = "load" /\ last.exc # "none") =>
            /\ last.exc = "PDFDocumentError"
            /\ last.msg = "Failed to open PDF document: " \o Diagnostic(last.args[1])
    /\ (last.op = "save" /\ last.doc0.loaded /\ last.exc # "none"
            /\ Len(last.doc0.pages) > 0) =>
            /\ last.exc = "PDFError"
            /\ last.msg = "Failed to save PDF: " \o Engine_save(last.args[1])

\* C28: save(path) on a Loaded document calls the engine in incremental mode
\* exactly when path is the document's current filepath and in full
\* (garbage / deflate / clean) mode otherwise; whether the save succeeds or
\* fails, the handle, the filepath and the cache stay as they were.
C28_SaveMode ==
    (last.op = "save" /\ last.doc0.loaded) =>
        /\ last.mode \in {"incremental", "full"}
        /\ (last.mode = "incremental") <=> (last.args[1] = last.filepath0)
        /\ last.exc \in {"none", "PDFError"}
        /\ Untouched

\* C29: cache coherence under serialized use.  In a serial run of load,
\* get_page_image, delete_page, delete_pages, move_page, copy_page, select and
\* close, an image returned by get_page_image(i, z) is a rasterization of the
\* page that is at index i when the call is made, never of a page that was at
\* index i before an earlier mutation.
C29_SerialCoherence ==
    (last.op = "get_page_image" /\ last.exc = "none" /\ last.ret # None) =>
        /\ InRange(doc, last.args[1])
        /\ last.ret.content = doc.pages[last.args[1] + 1]

\* C32: the load state depends on whether a handle is held, not on the page
\* count.  On a document that holds a handle whose document has no page, a
\* guarded operation does not raise the no-document error, save is not
\* rejected as unloaded, and close() releases the handle and resets filepath.
C32_ZeroPagesStillLoaded ==
    (last.doc0.loaded /\ last.doc0.pages = <<>>) =>
        /\ last.op \in Guarded =>
               ~(last.exc = "PDFDocumentError" /\ last.msg = "No document loaded")
        /\ last.op = "save" =>
               /\ last.msg # "Cannot save: No document loaded."
               /\ last.mode \in {"incremental", "full"}
        /\ last.op \in {"close", "exit"} =>
               /\ doc = NoDoc
               /\ filepath = ""
               /\ last.closed = 1

\* C33: whenever the document holds no handle its cache is empty: after
\* construction, after close, after a failed load, and after any call
\* attempted while it holds none.
C33_UnloadedCacheEmpty ==
    /\ ~doc.loaded => page_cache = <<>>
    /\ (/\ last.op # "init"
        /\ ~last.doc0.loaded
        /\ ~(last.op = "load" /\ last.exc = "none")) =>
            /\ ~doc.loaded
            /\ last.cache0 = <<>>
            /\ page_cache = <<>>

\* close on a document whose cache held an image
C33_Witness ==
    /\ last.op = "close"
    /\ last.cache0 # <<>>
    /\ ~doc.loaded
    /\ page_cache = <<>>

\* C34: get_page_image never serves an image for an index that is not a
\* current page.  Also when the cache still holds entries for an index at or
\* above the current page count, left over after deletions, get_page_image
\* for that index returns None and leaves those entries and their order as
\* they were.
C34_NoImageBeyondCount ==
    (last.op = "get_page_image" /\ last.doc0.loaded) =>
        /\ last.ret # None => InRange(last.doc0, last.args[1])
        /\ (/\ ~InRange(last.doc0, last.args[1])
            /\ KeysOfPage(last.cache0, last.args[1]) # {}) =>
                /\ last.ret = None
                /\ last.exc = "none"
                /\ last.rast = 0
                /\ page_cache = last.cache0
                /\ touched = last.touched0

\* C36: every image PDFDocument stores under the key (p, r) was rasterized
\* from the page at index p at a zoom z with round(z, 2) = r.  A miss
\* rasterizes index p at the requested zoom itself and stores that image
\* under (p, round(z, 2)); a hit returns an image rendered at a zoom that
\* rounds to the same value as the requested one.
C36_StoredImageProvenance ==
    /\ \A i \in 1..Len(page_cache) :
           Round2(page_cache[i].image.zoom) = page_cache[i].key[2]
    /\ (last.op = "get_page_image" /\ last.exc = "none" /\ last.ret # None) =>
           LET p == last.args[1]
               z == last.args[2]
           IN  /\ Round2(last.ret.zoom) = Round2(z)
               /\ Item(page_cache, CacheKey(p, z)) = last.ret
               /\ last.rast = 1 =>
                      /\ last.ret = Pixmap(last.doc0.pages[p + 1], z)
                      /\ CacheKey(p, z) \notin Keys(last.cache0)
               /\ last.rast = 0 => Item(last.cache0, CacheKey(p, z)) = last.ret

\* a hit at 1.0049 returned the image that a miss at 1.001 had rendered
C36_Witness ==
    /\ last.op = "get_page_image"
    /\ last.args[2] = 10049
    /\ last.rast = 0
    /\ last.ret # None
    /\ last.ret.zoom = 10010

---------------------------------------------------------------------------
(* Properties of the threads *)

\* the key of a logged get or add
EntryKey(e) == CacheKey(e.number, e.zoom)

\* the number of entries the cache c holds for key k
Copies(c, k) == Cardinality({i \in 1..Len(c) : c[i].key = k})

\* C15: when a thread that missed on key k and rasterized comes to insert and
\* finds k cached (the other thread missed on k too and inserted first), its
\* add_page_image changes nothing and the cache keeps the one entry for k
\* with the image of the first insert; the insert that came first stored its
\* own image; no key is ever cached twice and the size bound holds throughout.
C15_RacingAdds ==
    /\ Cardinality(Keys(page_cache)) = Len(page_cache)
    /\ Len(page_cache) <= max_size
    /\ (log # <<>> /\ log[1].op = "add" /\ log[1].exc = "none") =>
           LET e == log[1]
               k == EntryKey(e)
           IN  /\ Copies(e.cache1, k) = 1
               /\ IF k \in Keys(e.cache0)
                  THEN /\ e.cache1 = e.cache0
                       /\ Item(e.cache1, k).by # e.t
                  ELSE Item(e.cache1, k) = e.image

\* both threads rendered the same key, both missed and rasterized, and the
\* insert that came second found the key cached
C15_Witness ==
    /\ calls = 2
    /\ \A t \in Threads :
           /\ thr[t].pc = "idle"
           /\ thr[t].op = "get_page_image"
           /\ thr[t].image = Rendered(t, doc.pages, thr[t].number, thr[t].zoom)
    /\ \A t \in Threads, u \in Threads :
           CacheKey(thr[t].number, thr[t].zoom) = CacheKey(thr[u].number, thr[u].zoom)
    /\ log # <<>> /\ log[1].op = "add"
    /\ EntryKey(log[1]) \in Keys(log[1].cache0)
    /\ Len(page_cache) = 1
    /\ page_cache[1].image.by # log[1].t

\* the logged operation did to the cache, and returned, what the method does
\* when it runs alone on the cache it found
Serial(e) ==
    CASE e.op = "get" ->
            LET r == DocumentCache_get_page_image(e.cache0, e.number, e.zoom)
            IN  e.cache1 = r.cache /\ e.ret = r.ret /\ e.exc = "none"
      [] e.op = "add" ->
            LET r == DocumentCache_add_page_image(e.cache0, max_size, e.number,
                                                  e.image, e.zoom)
            IN  e.cache1 = r.cache /\ e.exc = r.exc
      [] e.op = "remove_page" ->
            e.cache1 = DocumentCache_remove_page(e.cache0, e.number) /\ e.exc = "none"
      [] e.op = "clear" ->
            e.cache1 = DocumentCache_clear(e.cache0) /\ e.exc = "none"
      [] e.op = "cache_info" ->
            /\ e.cache1 = e.cache0
            /\ e.info = DocumentCache_cache_info(e.cache0, max_size)
            /\ e.exc = "none"

\* the cache as the operation that completed last left it
Stable == IF log = <<>> THEN <<>> ELSE log[1].cache1

\* C16: the operations of the threads on the cache are serialized by the
\* lock, in the order they take it: only the holder of the lock is inside a
\* method body, every operation starts from the cache exactly as the
\* operation before it left it (never from a half-done eviction, removal or
\* clear), and does to it and returns what the method does when run alone.
C16_Serializable ==
    /\ \A t \in Threads : thr[t].pc \in BodyPoints => lock = t
    /\ \A t \in Threads : thr[t].pc \in BodyPoints => thr[t].cache0 = Stable
    /\ lock = Free => page_cache = Stable
    /\ log # <<>> => Serial(log[1])

\* one thread has evicted and not yet stored, or has deleted one of two keys
\* of a page, while the other thread waits for the lock
C16_Witness ==
    \E t \in Threads, u \in Threads :
        /\ lock = t
        /\ thr[t].pc \in {"add_store", "remove_del"}
        /\ page_cache # thr[t].cache0
        /\ thr[u].pc \in AcquirePoints


\* C30: the cache lock is never held while the engine rasterizes, and every
\* exit of a cache operation (hit, miss, early return on a duplicate add,
\* eviction) releases it: the lock is held only by a thread inside a "with"
\* body, a thread waiting for the lock while another rasterizes can take it,
\* and under fair scheduling every call a thread has started returns.
C30_LockDiscipline ==
    /\ [](\A t \in Threads :
            /\ thr[t].pc = "rasterize" => lock # t
            /\ (lock = t) <=> (thr[t].pc \in BodyPoints)
            /\ \A u \in Threads \ {t} :
                   (thr[t].pc = "rasterize" /\ thr[u].pc \in AcquirePoints) =>
                       ENABLED T_Acquire(u))
    /\ \A t \in Threads : (thr[t].pc # "idle") ~> (thr[t].pc = "idle")

\* one thread is rasterizing after its miss while the other has since gone
\* through a whole add_page_image that evicted an entry
C30_Witness ==
    \E t \in Threads : \E u \in Threads \ {t} :
        /\ thr[t].pc = "rasterize"
        /\ thr[u].pc = "idle"
        /\ log # <<>>
        /\ log[1].t = u
        /\ log[1].op = "add"
        /\ Len(log[1].cache0) = max_size
        /\ log[1].cache1 # log[1].cache0


\* C31: an invalidation is not undone by a render in flight.  When a
\* get_page_image that missed on page p holds its rasterized image while
\* remove_page(p) or clear() completes on another thread, then after both have
\* completed the cache does not hold that image.
C31_InvalidationHolds ==
    \A t \in Threads :
        (/\ thr[t].invalidated
         /\ thr[t].pc = "idle"
         /\ thr[t].op = "get_page_image") =>
            ~\E i \in 1..Len(page_cache) :
                /\ page_cache[i].key = CacheKey(thr[t].number, thr[t].zoom)
                /\ page_cache[i].image = thr[t].image


\* the image the get_page_image call returns whose last cache operation is the
\* logged e: on a hit the image of the lookup, after a miss the pixmap the
\* thread rasterized, whatever add_page_image did with it
Returned(e) == IF e.op = "get" THEN e.ret ELSE e.image

\* C37: callers agree on the image for a key.  When a get_page_image call
\* for key k returns and k is cached, the image it returns is the one image
\* stored in the cache for k, also when the call raced with another on the
\* initial miss.
C37_CallersAgree ==
    (/\ log # <<>>
     /\ log[1].op \in {"get", "add"}
     /\ log[1].exc = "none"
     /\ thr[log[1].t].pc = "idle"
     /\ EntryKey(log[1]) \in Keys(log[1].cache1)) =>
        Returned(log[1]) = Item(log[1].cache1, EntryKey(log[1]))


---------------------------------------------------------------------------
(* Properties of the viewer widget *)

\* C38: go_to_page.  go_to_page(n) with 0 <= n < number of page labels sets
\* current_page to n, emits pageChanged(n) exactly once and returns True; with
\* any other n it returns False, leaves current_page unchanged and emits no
\* signal.
C38_GoToPage ==
    viewer.op = "go_to_page" =>
        IF 0 <= viewer.arg /\ viewer.arg < viewer.page_labels
        THEN /\ viewer.current_page = viewer.arg
             /\ viewer.ret = "True"
             /\ Cardinality({i \in DOMAIN viewer.emitted :
                                viewer.emitted[i] = <<"pageChanged", viewer.arg>>}) = 1
        ELSE /\ viewer.ret = "False"
             /\ viewer.current_page = viewer.current_page0
             /\ viewer.emitted = <<>>

\* C39: zoom limits.  After any sequence of set_zoom, zoom_in, zoom_out,
\* reset_zoom and Ctrl+wheel events the zoom level lies within [0.1, 5.0]; a
\* set_zoom or wheel request below 0.1 leaves it at 0.1 and one above 5.0 at
\* 5.0.
C39_ZoomWithinLimits ==
    viewer.op # "none" =>
        LET asked == IF viewer.op = "set_zoom" THEN viewer.arg
                     ELSE (viewer.zoom_level0 * (10 + viewer.arg)) \div 10
        IN  /\ ZoomMin <= viewer.zoom_level
            /\ viewer.zoom_level <= ZoomMax
            /\ viewer.op \in {"set_zoom", "wheelEvent"} /\ asked < ZoomMin
                   => viewer.zoom_level = ZoomMin
            /\ viewer.op \in {"set_zoom", "wheelEvent"} /\ asked > ZoomMax
                   => viewer.zoom_level = ZoomMax

\* a Ctrl+wheel event far enough down to ask for a negative zoom level leaves
\* the widget at the lower limit
C39_Witness ==
    /\ viewer.op = "wheelEvent"
    /\ viewer.zoom_level0 * (10 + viewer.arg) < 0
    /\ viewer.zoom_level0 > ZoomMin
    /\ viewer.zoom_level = ZoomMin

====
